---- MODULE Spec2Model ----
(***************************************************************************)
(* Usage accounting engine of cc-status: one render of the status line.    *)
(* The records read from the transcript logs are partitioned into 5-hour   *)
(* session blocks by the three copies of identifySessionBlocks (the        *)
(* subscription segment, the transcript parser, the session timer), each   *)
(* service resolves the active block against the clock, and the            *)
(* subscription segment reports the usage figures.                         *)
(*                                                                         *)
(* Spec starts from the records of the render.  SpecReader starts from the *)
(* transcript files and adds the record store reader (parse, sidechain     *)
(* filter, deduplication) in front of the same pipeline.  SpecLimit is the *)
(* quota estimator of LimitDetectionService: the historical scan and the   *)
(* estimate of the token limit.                                            *)
(*                                                                         *)
(* Instants are milliseconds since an arbitrary hour-aligned origin.       *)
(* A JavaScript number that may also be undefined or NaN is a record       *)
(* [kind, v]; a block reference that may be null is the 1-based index of   *)
(* the block in its block list, 0 standing for null.                       *)
(***************************************************************************)
EXTENDS Integers, Sequences, FiniteSets, TLC

\* ---------------------------------------------------------------- bounds
MaxEntries == 3
MaxLines == 3
MaxPerTotal == 3
MaxClockHours == 9
MaxPricingDays == 2
MaxInFlight == 2

\* ------------------------------------------------------------- constants
sessionDurationMs == 5 * 60 * 60 * 1000
HourMs == 60 * 60 * 1000
MinuteMs == 60 * 1000

\* ---------------------------------------------------------------- inputs
\* Minutes after the origin at which a record may be stamped or the clock
\* read: inside one hour, on the hour, exactly 5 h and more than 5 h apart.
Instants == {m * MinuteMs : m \in {30, 60, 330, 360, 390, 720}}

Usages ==
  { [inputTokens |-> 10, outputTokens |-> 20,
     cacheCreationInputTokens |-> 0, cacheReadInputTokens |-> 0],
    [inputTokens |-> 1, outputTokens |-> 2,
     cacheCreationInputTokens |-> 4, cacheReadInputTokens |-> 8] }

Entries == [timestamp : Instants, usage : Usages]

\* Limits getDailyTokenLimit can hand out: a manual override of 0, a small
\* manual override, the fallback constant.
TokenLimits == {0, 25, 45600000}

BoundedSeq(S, n) == UNION {[1..k -> S] : k \in 0..n}

\* ------------------------------------------------------ JavaScript values
Num(n) == [kind |-> "number", v |-> n]
Undefined == [kind |-> "undefined", v |-> 0]
NaN == [kind |-> "NaN", v |-> 0]
IsNumber(x) == x.kind = "number"

\* Math.round(a / b) for a >= 0, b > 0: halves round up.
RoundDiv(a, b) == (2 * a + b) \div (2 * b)

NoDate == -1

VARIABLES entries, pc, now, subBlocks, tpBlocks, timerBlocks,
          subActive, tpActive, timerActive, usageData, tokensLimit, info

\* The record store reader: the transcript files of the render, how many of
\* them the read loop has consumed, the result of the last parse, the dedupe
\* keys seen so far.
VARIABLES transcriptFiles, fileIndex, parsed, seenHashes

readerVars == <<transcriptFiles, fileIndex, parsed, seenHashes>>

\* The quota estimator: the parsed transcript files of the last 30 days, the
\* blocks the historical scan returned, the cached estimate, the estimate
\* last handed out, the lastUpdated stamp of the cached estimate, whether
\* the last getDailyTokenLimit ran the historical estimator.
VARIABLES historyFiles, historicalBlocks, cachedLimit, limitInfo,
          lastUpdated, ranEstimator

limitVars == <<historyFiles, historicalBlocks, cachedLimit, limitInfo,
               lastUpdated, ranEstimator>>

\* The services of the derived metrics: the result of the last
\* getBurnRateInfo; the result of getSessionTimer of the transcript-based
\* timer; the block handed to getSessionTimer of the session timer segment
\* and its result; the result of detectFromBlockPattern.
VARIABLES burnRateInfo, timerInfo, activeBlockArg, segmentTimerInfo,
          resetTimeInfo

metricVars == <<burnRateInfo, timerInfo, activeBlockArg, segmentTimerInfo,
                resetTimeInfo>>

\* The pricing resolver: PricingService.memoryCache, the cache file on
\* disk, the table the last getCurrentPricing returned, whether that call
\* sent a request and the response it got, the argument and the result of
\* the last getModelPricing.
VARIABLES memoryCache, diskCache, pricingTable, fetched, fetchResponse,
          modelId, modelPricing

pricingVars == <<memoryCache, diskCache, pricingTable, fetched, fetchResponse,
                 modelId, modelPricing>>

\* The reset-time detector: ResetTimeDetectionService.cachedResetTime, the
\* clock reading at which it was computed, whether the last getResetTime ran
\* the detection.  The number of getDailyTokenLimit calls suspended at
\* their await.  The daily cost segment: the running total of
\* getDailyCostInfo with the number of entries its loop has handled, and
\* what calculateCostForEntry returned for each of them.
VARIABLES cachedResetTime, resetDetectedAt, ranDetection, inFlight,
          dailyCost, calculatedCosts

extraVars == <<cachedResetTime, resetDetectedAt, ranDetection, inFlight,
               dailyCost, calculatedCosts>>

serviceVars == <<metricVars, pricingVars, extraVars>>

vars == <<entries, pc, now, subBlocks, tpBlocks, timerBlocks,
          subActive, tpActive, timerActive, usageData, tokensLimit, info,
          readerVars, limitVars, serviceVars>>

\* ----------------------------------------------------------- partitioner
\* Variant: setUTCSeconds(0, 0) in place of setUTCMinutes(0, 0, 0).
floorToMinute(timestamp) == timestamp - (timestamp % MinuteMs)

floorToHour(timestamp) == timestamp - (timestamp % HourMs)

\* [...entries].sort((a, b) => a.timestamp - b.timestamp): Array.prototype.sort
\* is stable, so an entry goes after every entry that is not later than it.
InsertByTimestamp(sorted, e) ==
  LET k == Cardinality({i \in 1..Len(sorted) : sorted[i].timestamp <= e.timestamp})
  IN SubSeq(sorted, 1, k) \o <<e>> \o SubSeq(sorted, k + 1, Len(sorted))

\* Variant: the entries are walked in arrival order, without the sort.
unsortedEntriesOf(s) == s

RECURSIVE sortedEntriesOf(_)
sortedEntriesOf(s) ==
  IF s = <<>> THEN <<>>
  ELSE InsertByTimestamp(sortedEntriesOf(SubSeq(s, 1, Len(s) - 1)), s[Len(s)])

\* Variant: a 24 h (daily) window in the break condition.
breaksBlockDaily(entryTime, currentBlockStart, lastEntryTime) ==
  \/ entryTime - currentBlockStart > 24 * HourMs
  \/ entryTime - lastEntryTime > 24 * HourMs

\* Variant: a factor of 60 dropped, the window of the break condition is 5 min.
breaksBlockMinutes(entryTime, currentBlockStart, lastEntryTime) ==
  \/ entryTime - currentBlockStart > 5 * MinuteMs
  \/ entryTime - lastEntryTime > 5 * MinuteMs

\* Variant: only the gap to the last entry closes a block, not the time since
\* the block's start.
breaksBlockGapOnly(entryTime, currentBlockStart, lastEntryTime) ==
  entryTime - lastEntryTime > sessionDurationMs

\* The dual break condition of the loop body.
breaksBlock(entryTime, currentBlockStart, lastEntryTime) ==
  \/ entryTime - currentBlockStart > sessionDurationMs
  \/ entryTime - lastEntryTime > sessionDurationMs

\* Variant: on a break the new block keeps the old currentBlockStart.
tpStepStaleStart(st, entry) ==
  LET entryTime == entry.timestamp
  IN IF st.currentBlockStart = NoDate
     THEN [st EXCEPT !.currentBlockStart = floorToHour(entryTime),
                     !.currentBlockEntries = <<entry>>]
     ELSE IF st.currentBlockEntries = <<>>
     THEN st
     ELSE IF breaksBlock(entryTime, st.currentBlockStart,
                         st.currentBlockEntries[Len(st.currentBlockEntries)].timestamp)
     THEN [blocks |-> Append(st.blocks,
                             [startTime |-> st.currentBlockStart,
                              endTime |-> st.currentBlockStart + sessionDurationMs,
                              entries |-> st.currentBlockEntries]),
           currentBlockStart |-> st.currentBlockStart,
           currentBlockEntries |-> <<entry>>]
     ELSE [st EXCEPT !.currentBlockEntries = Append(@, entry)]

\* TranscriptParser.identifySessionBlocks, one iteration of the for loop over
\* sortedEntries; st carries blocks, currentBlockStart, currentBlockEntries.
tpStep(st, entry) ==
  LET entryTime == entry.timestamp
  IN IF st.currentBlockStart = NoDate
     THEN [st EXCEPT !.currentBlockStart = floorToHour(entryTime),
                     !.currentBlockEntries = <<entry>>]
     ELSE IF st.currentBlockEntries = <<>>
     THEN st
     ELSE IF breaksBlock(entryTime, st.currentBlockStart,
                         st.currentBlockEntries[Len(st.currentBlockEntries)].timestamp)
     THEN [blocks |-> Append(st.blocks,
                             [startTime |-> st.currentBlockStart,
                              endTime |-> st.currentBlockStart + sessionDurationMs,
                              entries |-> st.currentBlockEntries]),
           currentBlockStart |-> floorToHour(entryTime),
           currentBlockEntries |-> <<entry>>]
     ELSE [st EXCEPT !.currentBlockEntries = Append(@, entry)]

RECURSIVE tpLoop(_, _)
tpLoop(rest, st) ==
  IF rest = <<>> THEN st ELSE tpLoop(Tail(rest), tpStep(st, Head(rest)))

\* Variant: the block still open at the end of the loop is not pushed.
identifySessionBlocksUnclosed(es) ==
  IF Len(es) = 0 THEN <<>>
  ELSE tpLoop(sortedEntriesOf(es),
              [blocks |-> <<>>, currentBlockStart |-> NoDate,
               currentBlockEntries |-> <<>>]).blocks

identifySessionBlocks(es) ==
  IF Len(es) = 0 THEN <<>>
  ELSE
    LET r == tpLoop(sortedEntriesOf(es),
                    [blocks |-> <<>>, currentBlockStart |-> NoDate,
                     currentBlockEntries |-> <<>>])
    IN IF r.currentBlockStart # NoDate /\ Len(r.currentBlockEntries) > 0
       THEN Append(r.blocks, [startTime |-> r.currentBlockStart,
                              endTime |-> r.currentBlockStart + sessionDurationMs,
                              entries |-> r.currentBlockEntries])
       ELSE r.blocks

\* SubscriptionService.identifySessionBlocks: the same loop, but a block is
\* only the array of its entries.
subStep(st, entry) ==
  LET entryTime == entry.timestamp
  IN IF st.currentBlockStart = NoDate
     THEN [st EXCEPT !.currentBlockStart = floorToHour(entryTime),
                     !.currentBlockEntries = <<entry>>]
     ELSE IF st.currentBlockEntries = <<>>
     THEN st
     ELSE IF breaksBlock(entryTime, st.currentBlockStart,
                         st.currentBlockEntries[Len(st.currentBlockEntries)].timestamp)
     THEN [blocks |-> Append(st.blocks, st.currentBlockEntries),
           currentBlockStart |-> floorToHour(entryTime),
           currentBlockEntries |-> <<entry>>]
     ELSE [st EXCEPT !.currentBlockEntries = Append(@, entry)]

RECURSIVE subLoop(_, _)
subLoop(rest, st) ==
  IF rest = <<>> THEN st ELSE subLoop(Tail(rest), subStep(st, Head(rest)))

subIdentifySessionBlocks(es) ==
  IF Len(es) = 0 THEN <<>>
  ELSE
    LET r == subLoop(sortedEntriesOf(es),
                     [blocks |-> <<>>, currentBlockStart |-> NoDate,
                      currentBlockEntries |-> <<>>])
    IN IF r.currentBlockStart # NoDate /\ Len(r.currentBlockEntries) > 0
       THEN Append(r.blocks, r.currentBlockEntries)
       ELSE r.blocks

\* SessionTimerService.identifySessionBlocks: a verbatim copy of the
\* transcript parser's, with sessionDurationHours * 60 * 60 * 1000.
timerIdentifySessionBlocks(es) == identifySessionBlocks(es)

\* ------------------------------------------------- active block resolver
\* Variant: only the recency of the last entry is tested, not now < endTime.
createBlockInfoRecentOnly(startTime, es, n) ==
  LET actualEndTime == IF Len(es) > 0 THEN es[Len(es)].timestamp ELSE startTime
  IN [block |-> es, isActive |-> (n - actualEndTime < sessionDurationMs)]

\* SubscriptionService.createBlockInfo, with the clock reading n.
createBlockInfo(startTime, es, n) ==
  LET endTime == startTime + sessionDurationMs
      actualEndTime == IF Len(es) > 0 THEN es[Len(es)].timestamp ELSE startTime
  IN [block |-> es,
      isActive |-> (n - actualEndTime < sessionDurationMs /\ n < endTime)]

\* SubscriptionService.findActiveBlock: for (i = blocks.length - 1; i >= 0; i--).
RECURSIVE subScan(_, _, _)
subScan(blocks, i, n) ==
  IF i < 1 THEN 0
  ELSE LET block == blocks[i]
       IN IF Len(block) = 0 THEN subScan(blocks, i - 1, n)
          ELSE IF createBlockInfo(floorToHour(block[1].timestamp), block, n).isActive
          THEN i
          ELSE subScan(blocks, i - 1, n)

findActiveBlock(blocks, n) == subScan(blocks, Len(blocks), n)

\* The isActive expression of the two for-of resolvers.
isActiveBlock(block, n) ==
  LET actualEndTime == IF Len(block.entries) > 0
                       THEN block.entries[Len(block.entries)].timestamp
                       ELSE block.startTime
  IN n - actualEndTime < sessionDurationMs /\ n < block.endTime

\* TranscriptParser.getCurrentBlockUsageAcrossAllSessions: for (const block
\* of sessionBlocks) ... break at the first active one.
RECURSIVE tpScan(_, _, _)
tpScan(blocks, i, n) ==
  IF i > Len(blocks) THEN 0
  ELSE IF isActiveBlock(blocks[i], n) THEN i
  ELSE tpScan(blocks, i + 1, n)

tpFindActiveBlock(blocks, n) == tpScan(blocks, 1, n)

\* SessionTimerService.findActiveBlock: for (const block of sessionBlocks)
\* ... return the first active one.
RECURSIVE timerScan(_, _, _)
timerScan(blocks, i, n) ==
  IF i > Len(blocks) THEN 0
  ELSE IF isActiveBlock(blocks[i], n) THEN i
  ELSE timerScan(blocks, i + 1, n)

timerFindActiveBlock(blocks, n) == timerScan(blocks, 1, n)

\* ------------------------------------------------------------ usage sums
\* The reduce over input + output + cache-creation + cache-read tokens.
RECURSIVE sumWithCacheRead(_)
sumWithCacheRead(es) ==
  IF es = <<>> THEN 0
  ELSE es[1].usage.inputTokens + es[1].usage.outputTokens
       + es[1].usage.cacheCreationInputTokens + es[1].usage.cacheReadInputTokens
       + sumWithCacheRead(Tail(es))

\* The reduce that leaves cache-read tokens out.
RECURSIVE sumWithoutCacheRead(_)
sumWithoutCacheRead(es) ==
  IF es = <<>> THEN 0
  ELSE es[1].usage.inputTokens + es[1].usage.outputTokens
       + es[1].usage.cacheCreationInputTokens
       + sumWithoutCacheRead(Tail(es))

\* SubscriptionService.getActiveBlockUsage after the entries are collected:
\* sessionBlocks and activeBlock (an index into sessionBlocks, 0 for null) are
\* the results of identifySessionBlocks and findActiveBlock.  The two early
\* returns build an object without the last two properties.
getActiveBlockUsage(allEntries, sessionBlocks, activeBlock) ==
  IF Len(allEntries) = 0
  THEN [totalTokens |-> Num(0), dailyUsageWithCacheRead |-> Undefined,
        activeBlockWithCache |-> Undefined]
  ELSE IF activeBlock = 0 \/ Len(sessionBlocks[activeBlock]) = 0
  THEN [totalTokens |-> Num(0), dailyUsageWithCacheRead |-> Undefined,
        activeBlockWithCache |-> Undefined]
  ELSE [totalTokens |-> Num(sumWithoutCacheRead(sessionBlocks[activeBlock])),
        dailyUsageWithCacheRead |-> Num(sumWithCacheRead(allEntries)),
        activeBlockWithCache |-> Num(sumWithCacheRead(sessionBlocks[activeBlock]))]

\* The tail of getSubscriptionInfo, from tokensUsed on.  percentage is kept
\* in tenths of a percent, the precision Math.round(percentage * 10) / 10
\* leaves; a non-number operand makes the division NaN and NaN > 100 false.
subscriptionInfoOf(tokensUsed, limit) ==
  [percentage |->
     IF limit > 0
     THEN IF IsNumber(tokensUsed) THEN Num(RoundDiv(tokensUsed.v * 1000, limit))
          ELSE NaN
     ELSE Num(0),
   tokensUsed |-> tokensUsed,
   tokensLimit |-> limit,
   isOverLimit |-> (limit > 0 /\ IsNumber(tokensUsed) /\ tokensUsed.v > limit)]

\* src/segments/subscription.ts: tokensUsed = activeBlockWithCache.
getSubscriptionInfo(usage, limit) ==
  subscriptionInfoOf(usage.activeBlockWithCache, limit)

\* SubscriptionService.getFallbackData, the payload of the catch branch of
\* getSubscriptionInfo (percentage 48.6 in tenths of a percent).
getFallbackData ==
  [percentage |-> Num(486), tokensUsed |-> Num(9404300),
   tokensLimit |-> 19342800, isOverLimit |-> FALSE]

\* The later revision: tokensUsed = Math.round(activeBlockWithCache / 2).
getSubscriptionInfoHalved(usage, limit) ==
  subscriptionInfoOf(
    IF IsNumber(usage.activeBlockWithCache)
    THEN Num(RoundDiv(usage.activeBlockWithCache.v, 2))
    ELSE NaN,
    limit)

\* ---------------------------------------------------- record store reader
\* A line of a transcript file.  shape "text" is a line not enclosed in
\* braces, "badjson" a line enclosed in braces on which JSON.parse throws,
\* "json" a line that parses to an object.  hasMessage and hasUsage tell
\* whether entry.message and message.usage are objects.  An absent timestamp
\* is NoDate, an absent identifier 0, an absent usage field or costUSD 0.
\* A timestamp string stands for the instant it denotes.
LogLine(shape, hasMessage, hasUsage, timestamp, messageId, requestId, isSidechain, input, output, cacheCreation, cacheRead, costUSD) ==
  [shape |-> shape, hasMessage |-> hasMessage, hasUsage |-> hasUsage,
   timestamp |-> timestamp, messageId |-> messageId, requestId |-> requestId,
   isSidechain |-> isSidechain,
   usage |-> [input_tokens |-> input, output_tokens |-> output,
              cache_creation_input_tokens |-> cacheCreation,
              cache_read_input_tokens |-> cacheRead],
   costUSD |-> costUSD]

\* Two lines with different identifier pairs and the same timestamp and
\* input/output counts (they differ in cache reads), a line repeating the
\* first pair at another time, a line without identifiers that shares the
\* signature of the first two, a sidechain line, a line without timestamp,
\* a line without usage, a line that does not parse.
LogLines ==
  { LogLine("json", TRUE, TRUE, 30 * MinuteMs, 1, 1, FALSE, 10, 20, 0, 0, 0),
    LogLine("json", TRUE, TRUE, 30 * MinuteMs, 2, 2, FALSE, 10, 20, 0, 8, 0),
    LogLine("json", TRUE, TRUE, 60 * MinuteMs, 1, 1, FALSE, 1, 2, 4, 8, 0),
    LogLine("json", TRUE, TRUE, 30 * MinuteMs, 0, 0, FALSE, 10, 20, 4, 0, 0),
    LogLine("json", TRUE, TRUE, 60 * MinuteMs, 3, 3, TRUE, 10, 20, 0, 0, 7),
    LogLine("json", TRUE, TRUE, NoDate, 0, 0, FALSE, 10, 20, 0, 0, 0),
    LogLine("json", TRUE, FALSE, 60 * MinuteMs, 0, 0, FALSE, 0, 0, 0, 0, 0),
    LogLine("badjson", FALSE, FALSE, NoDate, 0, 0, FALSE, 0, 0, 0, 0, 0) }

\* A transcript file: readFile either fails or returns the lines.
TranscriptFile(readable, lines) == [readable |-> readable, lines |-> lines]

\* Readings of the clock while the files are parsed (new Date() of
\* parseTranscriptFile): two consecutive milliseconds.
ParseInstants == {30 * MinuteMs - 1, 30 * MinuteMs}

\* One clock reading per line, none going back from the last reading c.
StampsFor(lines, c) ==
  {s \in [1..Len(lines) -> ParseInstants] :
     \A i \in 1..Len(lines) :
       /\ c <= s[i]
       /\ \A j \in i..Len(lines) : s[i] <= s[j]}

\* The lines whose entry takes its timestamp from the clock.
IsStamped(line) ==
  line.shape = "json" /\ line.hasMessage /\ line.hasUsage /\ line.timestamp = NoDate

\* The last reading the parse of the lines used, c if it used none.
ClockAfter(lines, stamps, c) ==
  LET used == {i \in 1..Len(lines) : IsStamped(lines[i])}
  IN IF used = {} THEN c
     ELSE stamps[CHOOSE i \in used : \A k \in used : k <= i]

\* Body of the line loop of parseTranscriptFile: the entries the line adds.
\* The entry is rebuilt from timestamp, message.usage, message.model, model,
\* model_id, costUSD and usageLimitResetTime: message.id, requestId and
\* isSidechain of the line are not copied, so they are absent from the entry.
parseLine(line, stamp) ==
  IF line.shape # "json"
    THEN <<>>
    ELSE IF ~(line.hasMessage /\ line.hasUsage)
      THEN <<>>
      ELSE << [timestamp |-> IF line.timestamp = NoDate THEN stamp
                             ELSE line.timestamp,
               usage |-> line.usage,
               costUSD |-> line.costUSD,
               messageId |-> 0, requestId |-> 0, isSidechain |-> FALSE] >>

RECURSIVE parseLines(_, _)
parseLines(lines, stamps) ==
  IF lines = <<>> THEN <<>>
  ELSE parseLine(Head(lines), Head(stamps)) \o parseLines(Tail(lines), Tail(stamps))

\* Variant: JSON.parse outside the inner try, so that a line that does not
\* parse ends the read in the outer catch.
parseTranscriptFileUnguarded(file, stamps) ==
  IF \/ ~file.readable
     \/ \E i \in 1..Len(file.lines) : file.lines[i].shape = "badjson"
    THEN <<>>
    ELSE parseLines(file.lines, stamps)

parseTranscriptFile(file, stamps) ==
  IF ~file.readable THEN <<>> ELSE parseLines(file.lines, stamps)

isSidechainEntry(entry) == entry.isSidechain = TRUE

\* A dedupe key, or NullHash.
NullHash == [kind |-> "null", a |-> 0, b |-> 0, c |-> 0]

createEntryHash(entry) ==
  IF entry.messageId # 0 /\ entry.requestId # 0
    THEN [kind |-> "ids", a |-> entry.messageId, b |-> entry.requestId, c |-> 0]
    ELSE IF entry.timestamp # NoDate
      THEN [kind |-> "signature", a |-> entry.timestamp,
            b |-> entry.usage.input_tokens, c |-> entry.usage.output_tokens]
      ELSE NullHash

\* Body of the entry loop of getActiveBlockUsage on acc = [seenHashes,
\* allEntries].  Every parsed entry has message.usage.
collectEntry(acc, entry) ==
  IF isSidechainEntry(entry)
    THEN acc
    ELSE LET hash == createEntryHash(entry)
         IN IF hash # NullHash /\ hash \in acc.seenHashes
              THEN acc
              ELSE [seenHashes |-> IF hash # NullHash
                                     THEN acc.seenHashes \cup {hash}
                                     ELSE acc.seenHashes,
                    allEntries |-> Append(acc.allEntries,
                      [timestamp |-> entry.timestamp,
                       usage |-> [inputTokens |-> entry.usage.input_tokens,
                                  outputTokens |-> entry.usage.output_tokens,
                                  cacheCreationInputTokens |->
                                    entry.usage.cache_creation_input_tokens,
                                  cacheReadInputTokens |->
                                    entry.usage.cache_read_input_tokens],
                       costUSD |-> entry.costUSD])]

RECURSIVE collectEntries(_, _)
collectEntries(acc, es) ==
  IF es = <<>> THEN acc
  ELSE collectEntries(collectEntry(acc, Head(es)), Tail(es))

\* -------------------------------------------------------- quota estimator
FIVE_HOURS_MS == 5 * 60 * 60 * 1000

\* An entry as parseTranscriptFile hands it to the historical scan.
HistoryEntry(timestamp, input, output, cacheCreation, cacheRead) ==
  [timestamp |-> timestamp,
   usage |-> [input_tokens |-> input, output_tokens |-> output,
              cache_creation_input_tokens |-> cacheCreation,
              cache_read_input_tokens |-> cacheRead]]

tokensOfEntry(entry) ==
  entry.usage.input_tokens + entry.usage.output_tokens
    + entry.usage.cache_creation_input_tokens + entry.usage.cache_read_input_tokens

\* Body of the entry loop of groupInto5HourBlocks on
\* st = [blocks, currentBlockStart, currentBlockTokens].
groupStep(st, entry) ==
  LET breaks == entry.timestamp - st.currentBlockStart > FIVE_HOURS_MS
      closed == IF breaks /\ st.currentBlockTokens > 0
                  THEN Append(st.blocks, [totalTokens |-> st.currentBlockTokens,
                                          startTime |-> st.currentBlockStart])
                  ELSE st.blocks
  IN [blocks |-> closed,
      currentBlockStart |-> IF breaks THEN entry.timestamp ELSE st.currentBlockStart,
      currentBlockTokens |-> (IF breaks THEN 0 ELSE st.currentBlockTokens)
                               + tokensOfEntry(entry)]

RECURSIVE groupLoop(_, _)
groupLoop(st, es) ==
  IF es = <<>> THEN st ELSE groupLoop(groupStep(st, Head(es)), Tail(es))

groupInto5HourBlocks(es) ==
  IF es = <<>> THEN <<>>
  ELSE LET sorted == sortedEntriesOf(es)
           st == groupLoop([blocks |-> <<>>,
                            currentBlockStart |-> sorted[1].timestamp,
                            currentBlockTokens |-> 0], sorted)
       IN IF st.currentBlockTokens > 0
            THEN Append(st.blocks, [totalTokens |-> st.currentBlockTokens,
                                    startTime |-> st.currentBlockStart])
            ELSE st.blocks

\* The blocks getHistoricalBlockUsage pushes for one parsed file: every
\* block that has tokens.
blocksOfFile(sessionUsage) ==
  LET kept == SelectSeq(groupInto5HourBlocks(sessionUsage),
                        LAMBDA b : b.totalTokens > 0)
  IN [i \in 1..Len(kept) |->
        [totalTokens |-> kept[i].totalTokens, date |-> kept[i].startTime]]

\* The blocks of the files lo..hi, in file order.
RECURSIVE blocksOfFiles(_, _, _)
blocksOfFiles(files, lo, hi) ==
  IF lo > hi THEN <<>>
  ELSE IF lo = hi THEN blocksOfFile(files[lo])
  ELSE LET mid == (lo + hi) \div 2
       IN blocksOfFiles(files, lo, mid) \o blocksOfFiles(files, mid + 1, hi)

getHistoricalBlockUsage(files) == blocksOfFiles(files, 1, Len(files))

\* sort((a, b) => b - a) of a list of numbers: the copies of the largest
\* number, then the smaller numbers sorted.
RECURSIVE sortDescending(_)
sortDescending(s) ==
  IF s = <<>> THEN <<>>
  ELSE LET largest == CHOOSE m \in {s[i] : i \in 1..Len(s)} :
                        \A i \in 1..Len(s) : s[i] <= m
       IN SelectSeq(s, LAMBDA x : x = largest)
            \o sortDescending(SelectSeq(s, LAMBDA x : x < largest))

\* tokenCounts[Math.floor(tokenCounts.length * 0.05)] || 0, 0-based.
percentile95(tokenCounts) ==
  LET index == (Len(tokenCounts) * 5) \div 100
  IN IF index < Len(tokenCounts) THEN tokenCounts[index + 1] ELSE 0

\* tokenCounts[Math.floor(tokenCounts.length * 0.01)] || 0, 0-based.
percentile99(tokenCounts) ==
  LET index == Len(tokenCounts) \div 100
  IN IF index < Len(tokenCounts) THEN tokenCounts[index + 1] ELSE 0

\* A group of findLimitClusters is kept as the sum and the number of its
\* values, which is all the code reads of it.
\* Math.abs(count - groupAvg) / groupAvg <= 0.02 with groupAvg = sum / len,
\* in whole numbers: |count * len - sum| * 50 <= sum.
withinClusterThreshold(count, group) ==
  LET d == count * group.len - group.sum
  IN (IF d < 0 THEN -d ELSE d) <= group.sum \div 50

\* group sum / group length > floor, in whole numbers.
exceedsOnAverage(group, floor) ==
  \/ group.sum \div group.len > floor
  \/ group.sum \div group.len = floor /\ group.sum % group.len > 0

\* Body of the count loop of findLimitClusters: the count joins the first
\* group it is within 2% of, or starts a group.
addToGroups(groups, count) ==
  LET fits == {g \in 1..Len(groups) : withinClusterThreshold(count, groups[g])}
  IN IF fits = {}
       THEN Append(groups, [sum |-> count, len |-> 1])
       ELSE LET g == CHOOSE k \in fits : \A j \in fits : k <= j
            IN [groups EXCEPT ![g] = [sum |-> @.sum + count, len |-> @.len + 1]]

\* for (const count of tokenCounts), over the counts i..j.
RECURSIVE groupRun(_, _, _, _)
groupRun(groups, counts, i, j) ==
  IF i > j THEN groups
  ELSE groupRun(addToGroups(groups, counts[i]), counts, i + 1, j)

\* The same loop from the i-th count to the last, taken in runs of RunLength
\* counts; the groups of a run (there is at least one) are evaluated before
\* the next run starts, which keeps the evaluation shallow.
RunLength == 16

RECURSIVE groupCounts(_, _, _)
groupCounts(groups, counts, i) ==
  IF i > Len(counts) THEN groups
  ELSE LET j == IF i + RunLength - 1 < Len(counts) THEN i + RunLength - 1
                ELSE Len(counts)
           after == groupRun(groups, counts, i, j)
       IN IF Len(after) = 0 THEN after
          ELSE groupCounts(after, counts, j + 1)

findLimitClusters(tokenCounts) ==
  IF Len(tokenCounts) < 5 THEN <<>>
  ELSE LET groups == groupCounts(<<>>, tokenCounts, 1)
           significant == SelectSeq(groups,
             LAMBDA g : g.len >= 3 /\ exceedsOnAverage(g, 30000000))
       IN sortDescending([i \in 1..Len(significant) |->
                            RoundDiv(significant[i].sum, significant[i].len)])

\* Math.max of a non-empty list.
MaxOf(s) == CHOOSE m \in {s[i] : i \in 1..Len(s)} : \A i \in 1..Len(s) : s[i] <= m

getConservativeFallback ==
  [dailyTokenLimit |-> 45600000, confidence |-> "fallback", source |-> "fallback"]

\* Variant: low usage is answered with the 99th percentile.
estimateLimitFromPercentile(p95, p99, potentialLimits) ==
  IF Len(potentialLimits) > 0 /\ p99 > 30000000
    THEN [estimatedLimit |-> MaxOf(potentialLimits), confidence |-> "high"]
    ELSE IF p95 > 40000000
      THEN [estimatedLimit |-> p99, confidence |-> "medium"]
      ELSE [estimatedLimit |-> p99, confidence |-> "low"]

\* Variant: Math.min in place of Math.max over the cluster means.
estimateLimitSmallestCluster(p95, p99, potentialLimits) ==
  IF Len(potentialLimits) > 0 /\ p99 > 30000000
    THEN [estimatedLimit |-> potentialLimits[Len(potentialLimits)],
          confidence |-> "high"]
    ELSE IF p95 > 40000000
      THEN [estimatedLimit |-> p99, confidence |-> "medium"]
      ELSE IF p95 > 20000000
        THEN [estimatedLimit |-> IF p99 > 45600000 THEN p99 ELSE 45600000,
              confidence |-> "low"]
        ELSE [estimatedLimit |-> 45600000, confidence |-> "low"]

\* The branches of detectFromHistoricalUsage on the two percentiles and the
\* cluster means.
estimateLimit(p95, p99, potentialLimits) ==
  IF Len(potentialLimits) > 0 /\ p99 > 30000000
    THEN [estimatedLimit |-> MaxOf(potentialLimits), confidence |-> "high"]
    ELSE IF p95 > 40000000
      THEN [estimatedLimit |-> p99, confidence |-> "medium"]
      ELSE IF p95 > 20000000
        THEN [estimatedLimit |-> IF p99 > 45600000 THEN p99 ELSE 45600000,
              confidence |-> "low"]
        ELSE [estimatedLimit |-> 45600000, confidence |-> "low"]

\* Variant: without the early return on an empty scan.
detectFromHistoricalUsageUnguarded(threw, blocks) ==
  IF threw
    THEN getConservativeFallback
    ELSE LET tokenCounts == sortDescending([i \in 1..Len(blocks) |-> blocks[i].totalTokens])
             estimate == estimateLimit(percentile95(tokenCounts),
                                       percentile99(tokenCounts),
                                       findLimitClusters(tokenCounts))
         IN [dailyTokenLimit |-> estimate.estimatedLimit,
             confidence |-> estimate.confidence,
             source |-> "historical_analysis"]

\* detectFromHistoricalUsage, given whether the historical scan threw and
\* the blocks it returned.  The totals are whole numbers, which Math.round
\* leaves as they are.
detectFromHistoricalUsage(threw, blocks) ==
  IF threw \/ Len(blocks) = 0
    THEN getConservativeFallback
    ELSE LET tokenCounts == sortDescending([i \in 1..Len(blocks) |-> blocks[i].totalTokens])
             estimate == estimateLimit(percentile95(tokenCounts),
                                       percentile99(tokenCounts),
                                       findLimitClusters(tokenCounts))
         IN [dailyTokenLimit |-> estimate.estimatedLimit,
             confidence |-> estimate.confidence,
             source |-> "historical_analysis"]

\* What getDailyTokenLimit computes, caches and returns when it has no fresh
\* cached limit.
computeDailyTokenLimit(threw, blocks) ==
  LET historicalLimit == detectFromHistoricalUsage(threw, blocks)
  IN IF historicalLimit.confidence # "fallback"
       THEN historicalLimit
       ELSE getConservativeFallback

\* ------------------------------------------------------------------ state
\* No transcript file waits to be read.
ReaderIdle ==
  /\ transcriptFiles = <<>>
  /\ fileIndex = 0
  /\ parsed = <<>>
  /\ seenHashes = {}

\* No estimate of the quota was made.
NoLimitInfo == [dailyTokenLimit |-> 0, confidence |-> "none", source |-> "none"]

LimitIdle ==
  /\ historyFiles = <<>>
  /\ historicalBlocks = <<>>
  /\ cachedLimit = NoLimitInfo
  /\ limitInfo = NoLimitInfo
  /\ lastUpdated = NoDate
  /\ ranEstimator = FALSE

\* No derived metric was computed.
NotComputed == [kind |-> "none"]

\* No cache entry (memoryCache.get gives undefined, loadDiskCache null).
NoCacheEntry == [kind |-> "null", data |-> <<>>, timestamp |-> 0]

\* No request was sent.
NoResponse == [kind |-> "none", body |-> [kind |-> "null", rows |-> <<>>]]

\* No service was called.
ServicesIdle ==
  /\ cachedResetTime = [kind |-> "null"]
  /\ resetDetectedAt = NoDate
  /\ ranDetection = FALSE
  /\ inFlight = 0
  /\ dailyCost = NotComputed
  /\ calculatedCosts = <<>>
  /\ burnRateInfo = NotComputed
  /\ timerInfo = NotComputed
  /\ activeBlockArg = NotComputed
  /\ segmentTimerInfo = NotComputed
  /\ resetTimeInfo = NotComputed
  /\ memoryCache = NoCacheEntry
  /\ diskCache = NoCacheEntry
  /\ pricingTable = <<>>
  /\ fetched = FALSE
  /\ fetchResponse = NoResponse
  /\ modelId = <<>>
  /\ modelPricing = NotComputed

\* Nothing was partitioned, resolved or reported.
RenderIdle ==
  /\ now = NoDate
  /\ subBlocks = <<>>
  /\ tpBlocks = <<>>
  /\ timerBlocks = <<>>
  /\ subActive = 0
  /\ tpActive = 0
  /\ timerActive = 0
  /\ usageData = [totalTokens |-> Num(0), dailyUsageWithCacheRead |-> Num(0),
                  activeBlockWithCache |-> Num(0)]
  /\ tokensLimit = 0
  /\ info = [percentage |-> Num(0), tokensUsed |-> Num(0),
             tokensLimit |-> 0, isOverLimit |-> FALSE]

Init ==
  /\ entries \in BoundedSeq(Entries, MaxEntries)
  /\ pc = "read"
  /\ now = NoDate
  /\ subBlocks = <<>>
  /\ tpBlocks = <<>>
  /\ timerBlocks = <<>>
  /\ subActive = 0
  /\ tpActive = 0
  /\ timerActive = 0
  /\ usageData = [totalTokens |-> Num(0), dailyUsageWithCacheRead |-> Num(0),
                  activeBlockWithCache |-> Num(0)]
  /\ tokensLimit = 0
  /\ info = [percentage |-> Num(0), tokensUsed |-> Num(0),
             tokensLimit |-> 0, isOverLimit |-> FALSE]
  /\ ReaderIdle
  /\ LimitIdle
  /\ ServicesIdle

\* The three services partition the records of the render.
Partition ==
  /\ pc = "read"
  /\ subBlocks' = subIdentifySessionBlocks(entries)
  /\ tpBlocks' = identifySessionBlocks(entries)
  /\ timerBlocks' = timerIdentifySessionBlocks(entries)
  /\ pc' = "partitioned"
  /\ UNCHANGED <<entries, now, subActive, tpActive, timerActive,
                 usageData, tokensLimit, info>>
  /\ UNCHANGED <<readerVars, limitVars, serviceVars>>

\* Each service reads the clock (new Date()) and scans its blocks; the three
\* scans of one render are taken at the same reading n.
Resolve ==
  /\ pc = "partitioned"
  /\ \E n \in Instants :
       /\ now' = n
       /\ subActive' = findActiveBlock(subBlocks, n)
       /\ tpActive' = tpFindActiveBlock(tpBlocks, n)
       /\ timerActive' = timerFindActiveBlock(timerBlocks, n)
  /\ pc' = "resolved"
  /\ UNCHANGED <<entries, subBlocks, tpBlocks, timerBlocks,
                 usageData, tokensLimit, info>>
  /\ UNCHANGED <<readerVars, limitVars, serviceVars>>

\* getSubscriptionInfo of src/segments/subscription.ts.
ReportSubscription ==
  /\ pc = "resolved"
  /\ \E limit \in TokenLimits :
       /\ tokensLimit' = limit
       /\ usageData' = getActiveBlockUsage(entries, subBlocks, subActive)
       /\ info' = getSubscriptionInfo(usageData', limit)
  /\ pc' = "reported"
  /\ UNCHANGED <<entries, now, subBlocks, tpBlocks, timerBlocks,
                 subActive, tpActive, timerActive>>
  /\ UNCHANGED <<readerVars, limitVars, serviceVars>>

\* getSubscriptionInfo of the revision that halves the active block total.
ReportSubscriptionHalved ==
  /\ pc = "resolved"
  /\ \E limit \in TokenLimits :
       /\ tokensLimit' = limit
       /\ usageData' = getActiveBlockUsage(entries, subBlocks, subActive)
       /\ info' = getSubscriptionInfoHalved(usageData', limit)
  /\ pc' = "reportedHalved"
  /\ UNCHANGED <<entries, now, subBlocks, tpBlocks, timerBlocks,
                 subActive, tpActive, timerActive>>
  /\ UNCHANGED <<readerVars, limitVars, serviceVars>>

Next ==
  \/ Partition
  \/ Resolve
  \/ ReportSubscription
  \/ ReportSubscriptionHalved

Spec == Init /\ [][Next]_vars

\* ------------------------------------------------- state: reading the logs
\* A render that starts from the transcript files: up to MaxLines lines,
\* spread over two files; a file that cannot be read has no lines to give.
ReaderInit ==
  /\ \E stream \in BoundedSeq(LogLines, MaxLines) :
     \E cut \in 0..Len(stream) :
     \E r1 \in BOOLEAN : \E r2 \in BOOLEAN :
       /\ ~r1 => cut = 0
       /\ ~r2 => cut = Len(stream)
       /\ transcriptFiles =
            << TranscriptFile(r1, SubSeq(stream, 1, cut)),
               TranscriptFile(r2, SubSeq(stream, cut + 1, Len(stream))) >>
  /\ fileIndex = 0
  /\ parsed = <<>>
  /\ seenHashes = {}
  /\ entries = <<>>
  /\ pc = "reading"
  /\ RenderIdle
  /\ LimitIdle
  /\ ServicesIdle

\* One turn of the file loop of getActiveBlockUsage: the next file is parsed
\* and its entries are filtered, deduplicated and appended to allEntries.
ReadTranscriptFile ==
  /\ pc = "reading"
  /\ fileIndex < Len(transcriptFiles)
  /\ LET file == transcriptFiles[fileIndex + 1]
     IN \E stamps \in StampsFor(file.lines, now) :
          LET es == parseTranscriptFile(file, stamps)
              acc == collectEntries([seenHashes |-> seenHashes,
                                     allEntries |-> entries], es)
          IN /\ parsed' = es
             /\ seenHashes' = acc.seenHashes
             /\ entries' = acc.allEntries
             /\ now' = ClockAfter(file.lines, stamps, now)
  /\ fileIndex' = fileIndex + 1
  /\ pc' = IF fileIndex + 1 = Len(transcriptFiles) THEN "read" ELSE "reading"
  /\ UNCHANGED <<transcriptFiles, subBlocks, tpBlocks, timerBlocks,
                 subActive, tpActive, timerActive, usageData, tokensLimit, info>>
  /\ UNCHANGED <<limitVars, serviceVars>>

SpecReader ==
  /\ ReaderInit
  /\ [][\/ ReadTranscriptFile
         \/ Partition
         \/ Resolve
         \/ ReportSubscription]_vars

\* ------------------------------------------------------------ properties
RECURSIVE Flatten(_)
Flatten(ss) == IF ss = <<>> THEN <<>> ELSE Head(ss) \o Flatten(Tail(ss))

Occurrences(e, s) == Cardinality({i \in 1..Len(s) : s[i] = e})

\* s and t hold the same records, each the same number of times.
SameRecords(s, t) ==
  /\ Len(s) = Len(t)
  /\ \A e \in Entries : Occurrences(e, s) = Occurrences(e, t)

EntriesOfBlocks(blocks) == [i \in 1..Len(blocks) |-> blocks[i].entries]

Gap(a, b) == IF a > b THEN a - b ELSE b - a

\* C1: the record lists of the blocks returned by identifySessionBlocks (the
\* subscription's and the transcript parser's) together contain every input
\* record exactly once: none lost, none in two blocks.
C1_EveryRecordExactlyOnce ==
  pc # "read" =>
    /\ SameRecords(Flatten(subBlocks), entries)
    /\ SameRecords(Flatten(EntriesOfBlocks(tpBlocks)), entries)

\* Three records, two of them equal, spread over two blocks.
C1_Witness ==
  /\ pc = "partitioned"
  /\ Len(entries) = 3
  /\ entries[1] = entries[3]
  /\ Len(tpBlocks) = 2
  /\ Len(subBlocks) = 2

\* t1 and t2 are the stamps of two consecutive records of the sorted input.
AdjacentInInput(t1, t2) ==
  /\ t1 < t2
  /\ \E i \in 1..Len(entries) : entries[i].timestamp = t1
  /\ \E j \in 1..Len(entries) : entries[j].timestamp = t2
  /\ ~ \E k \in 1..Len(entries) :
         t1 < entries[k].timestamp /\ entries[k].timestamp < t2

NoWideGapInside(block) ==
  \A k \in 1..(Len(block) - 1) :
    Gap(block[k].timestamp, block[k + 1].timestamp) <= sessionDurationMs

WideGapsSeparated(block) ==
  \A i, j \in 1..Len(block) :
    ~ ( /\ AdjacentInInput(block[i].timestamp, block[j].timestamp)
        /\ block[j].timestamp - block[i].timestamp > sessionDurationMs )

\* C2: no two consecutive records of one block are more than 5 h apart, and
\* two consecutive records of the sorted input that are more than 5 h apart
\* are never in the same block.
C2_GapsSplitBlocks ==
  pc # "read" =>
    /\ \A b \in 1..Len(subBlocks) :
         NoWideGapInside(subBlocks[b]) /\ WideGapsSeparated(subBlocks[b])
    /\ \A b \in 1..Len(tpBlocks) :
         NoWideGapInside(tpBlocks[b].entries) /\ WideGapsSeparated(tpBlocks[b].entries)

\* A block holding two records exactly 5 h apart, followed by a record that
\* a gap of more than 5 h puts into a second block.
C2_Witness ==
  /\ pc = "partitioned"
  /\ Len(tpBlocks) = 2
  /\ Len(tpBlocks[1].entries) = 2
  /\ tpBlocks[1].entries[2].timestamp - tpBlocks[1].entries[1].timestamp
       = sessionDurationMs
  /\ tpBlocks[2].entries[1].timestamp - tpBlocks[1].entries[2].timestamp
       > sessionDurationMs

\* C3: the startTime of every block is the stamp of its first record floored
\* to the start of its hour.
C3_StartTimeHourFloored ==
  pc # "read" =>
    \A b \in 1..Len(tpBlocks) :
      LET first == tpBlocks[b].entries[1].timestamp
      IN /\ tpBlocks[b].startTime % HourMs = 0
         /\ tpBlocks[b].startTime <= first
         /\ first < tpBlocks[b].startTime + HourMs

\* Two blocks, the first opened by a record on the half hour, the second
\* by a record on the hour.
C3_Witness ==
  /\ pc = "partitioned"
  /\ Len(tpBlocks) = 2
  /\ tpBlocks[1].startTime < tpBlocks[1].entries[1].timestamp
  /\ tpBlocks[2].startTime = tpBlocks[2].entries[1].timestamp

\* C4: the startTime values of the returned blocks are strictly increasing.
C4_StartTimesIncrease ==
  pc # "read" =>
    \A b \in 1..(Len(tpBlocks) - 1) :
      tpBlocks[b].startTime < tpBlocks[b + 1].startTime

\* Three blocks out of records that arrived latest first.
C4_Witness ==
  /\ pc = "partitioned"
  /\ Len(tpBlocks) = 3
  /\ entries[1].timestamp > entries[2].timestamp
  /\ entries[2].timestamp > entries[3].timestamp

Reordered(p) == [i \in 1..Len(entries) |-> entries[p[i]]]

\* C5: every reordering of the input records gives the same number of
\* blocks, with the same startTime and endTime and the same records in each.
C5_OrderIndependent ==
  pc = "partitioned" =>
    \A p \in Permutations(1..Len(entries)) :
      LET tp2 == identifySessionBlocks(Reordered(p))
          sub2 == subIdentifySessionBlocks(Reordered(p))
      IN /\ Len(tp2) = Len(tpBlocks)
         /\ \A b \in 1..Len(tp2) :
              /\ tp2[b].startTime = tpBlocks[b].startTime
              /\ tp2[b].endTime = tpBlocks[b].endTime
              /\ SameRecords(tp2[b].entries, tpBlocks[b].entries)
         /\ Len(sub2) = Len(subBlocks)
         /\ \A b \in 1..Len(sub2) : SameRecords(sub2[b], subBlocks[b])

\* Records that arrived out of time order, two of them with the same stamp
\* and different usage, in two blocks.
C5_Witness ==
  /\ pc = "partitioned"
  /\ Len(entries) = 3
  /\ entries[1].timestamp > entries[2].timestamp
  /\ entries[1].timestamp = entries[3].timestamp
  /\ entries[1].usage # entries[3].usage
  /\ Len(tpBlocks) = 2

LastStamp(es) == es[Len(es)].timestamp

\* The fixed end of the window of a block: the hour of its first record + 5 h.
EndTimeOf(es) == es[1].timestamp - (es[1].timestamp % HourMs) + sessionDurationMs

\* (a) the last record is less than 5 h old and (b) now is before endTime.
RecentAndOpen(es) ==
  /\ now - LastStamp(es) < sessionDurationMs
  /\ now < EndTimeOf(es)

\* C6: a block is reported active only if its last record is less than 5 h
\* older than now and now is before its endTime, and a resolver returns no
\* block only when no block meets both conditions.
C6_ActiveNeedsBoth ==
  pc \notin {"read", "partitioned"} =>
    /\ subActive # 0 => RecentAndOpen(subBlocks[subActive])
    /\ tpActive # 0 => RecentAndOpen(tpBlocks[tpActive].entries)
    /\ subActive = 0 => \A b \in 1..Len(subBlocks) : ~ RecentAndOpen(subBlocks[b])
    /\ tpActive = 0 => \A b \in 1..Len(tpBlocks) : ~ RecentAndOpen(tpBlocks[b].entries)

\* The second block is reported active while the first, whose last record is
\* recent too, is past its endTime.
C6_Witness ==
  /\ pc = "resolved"
  /\ Len(subBlocks) = 2
  /\ subActive = 2
  /\ tpActive = 2
  /\ now - LastStamp(subBlocks[1]) < sessionDurationMs
  /\ now >= EndTimeOf(subBlocks[1])

\* The blocks that satisfy the active predicate of the resolvers at now.
tpActiveSet == {b \in 1..Len(tpBlocks) : isActiveBlock(tpBlocks[b], now)}

subActiveSet ==
  {b \in 1..Len(subBlocks) :
     createBlockInfo(floorToHour(subBlocks[b][1].timestamp), subBlocks[b], now).isActive}

\* C7 as stated: for every record set and every now, at most one block
\* satisfies the active predicate.
C7_AtMostOneActive ==
  pc = "resolved" =>
    /\ Cardinality(tpActiveSet) <= 1
    /\ Cardinality(subActiveSet) <= 1

\* C7, amended: at most one block satisfies the active predicate whenever now
\* is not earlier than the first record of the most recent block, which
\* includes every now at or after the latest record.
C7_AtMostOneActiveOnceStarted ==
  (pc = "resolved" /\ tpBlocks # <<>>
     /\ now >= tpBlocks[Len(tpBlocks)].entries[1].timestamp) =>
    /\ Cardinality(tpActiveSet) <= 1
    /\ Cardinality(subActiveSet) <= 1

\* Two blocks, the clock read inside the window of the second: exactly that
\* one is active.
C7_Witness ==
  /\ pc = "resolved"
  /\ Len(tpBlocks) = 2
  /\ now >= tpBlocks[2].entries[1].timestamp
  /\ tpActiveSet = {2}
  /\ subActiveSet = {2}

MostRecentActive ==
  IF tpActiveSet = {} THEN 0
  ELSE CHOOSE b \in tpActiveSet : \A c \in tpActiveSet : c <= b

\* C8: the three resolvers all return the most recent block that satisfies
\* the active predicate.
C8_ResolversReturnMostRecent ==
  pc = "resolved" =>
    /\ subActive = MostRecentActive
    /\ tpActive = MostRecentActive
    /\ timerActive = MostRecentActive

\* C9: with no record or no active block getSubscriptionInfo reports
\* tokensUsed 0, percentage 0 and isOverLimit false, all numbers; percentage
\* is 0 whenever the limit is 0.
C9_ZeroUsageWhenIdle ==
  pc \in {"reported", "reportedHalved"} =>
    /\ (entries = <<>> \/ subActive = 0) =>
         /\ info.tokensUsed = Num(0)
         /\ info.percentage = Num(0)
         /\ info.isOverLimit = FALSE
    /\ tokensLimit = 0 => info.percentage = Num(0)

RECURSIVE PlainSum(_)
PlainSum(es) ==
  IF es = <<>> THEN 0
  ELSE LET u == Head(es).usage
       IN u.inputTokens + u.outputTokens + u.cacheCreationInputTokens
          + u.cacheReadInputTokens + PlainSum(Tail(es))

\* C10: tokensUsed is the plain sum of the four token counts over the
\* records of the active block.
C10_TokensUsedIsPlainSum ==
  (pc \in {"reported", "reportedHalved"} /\ subActive # 0) =>
    info.tokensUsed = Num(PlainSum(subBlocks[subActive]))

\* -------------------------------------------- state: estimating the quota
\* Block totals a transcript of the last 30 days may add up to: far below
\* every floor, on the moderate-usage floor, between the floors of 30 and 40
\* million, two values within 2% of each other on and above 40 million, one
\* above everything.
HistoricalTotals == <<5000000, 20000000, 35000000, 40000000, 40500000, 50000000>>

\* A transcript whose entries add up to one block of the given total.
FileOfTotal(total) == << HistoryEntry(30 * MinuteMs, total, 0, 0, 0) >>

\* The transcripts of a history that has counts[i] blocks of
\* HistoricalTotals[i].
FilesOfCounts(counts) ==
  Flatten([i \in 1..Len(HistoricalTotals) |->
             [k \in 1..counts[i] |-> FileOfTotal(HistoricalTotals[i])]])

\* Entries of one transcript that spans several blocks: a small turn and a
\* turn that reads a large cache.
HistoryEntries ==
  {HistoryEntry(t, 10, 20, 0, 0) : t \in Instants}
    \cup {HistoryEntry(t, 0, 0, 0, 25000000) : t \in Instants}

\* The history is either many transcripts of one block each or one
\* transcript of up to MaxEntries entries.
LimitInit ==
  /\ \/ \E low \in {0, 30, 95} :
        \E counts \in [2..Len(HistoricalTotals) -> 0..MaxPerTotal] :
          historyFiles = FilesOfCounts([i \in 1..Len(HistoricalTotals) |->
                                          IF i = 1 THEN low ELSE counts[i]])
     \/ \E es \in BoundedSeq(HistoryEntries, MaxEntries) :
          historyFiles = <<es>>
  /\ historicalBlocks = <<>>
  /\ cachedLimit = NoLimitInfo
  /\ limitInfo = NoLimitInfo
  /\ lastUpdated = NoDate
  /\ ranEstimator = FALSE
  /\ entries = <<>>
  /\ pc = "idle"
  /\ RenderIdle
  /\ ReaderIdle
  /\ ServicesIdle

\* getDailyTokenLimit without a cached limit, up to the await of
\* getHistoricalBlockUsage: the scan returns the blocks of the files.
ScanHistory ==
  /\ pc = "idle"
  /\ historicalBlocks' = getHistoricalBlockUsage(historyFiles)
  /\ pc' = "scanned"
  /\ UNCHANGED <<entries, now, subBlocks, tpBlocks, timerBlocks, subActive,
                 tpActive, timerActive, usageData, tokensLimit, info,
                 readerVars, serviceVars, historyFiles, cachedLimit, limitInfo,
                 lastUpdated, ranEstimator>>

\* The same, when the scan throws (getClaudePaths, findProjectPaths).
ScanHistoryThrows ==
  /\ pc = "idle"
  /\ pc' = "scanThrew"
  /\ UNCHANGED <<entries, now, subBlocks, tpBlocks, timerBlocks, subActive,
                 tpActive, timerActive, usageData, tokensLimit, info,
                 readerVars, serviceVars, limitVars>>

\* getDailyTokenLimit from the return of the scan on: the estimate is
\* computed, stamped with the clock (which this specification does not
\* start), cached and returned.
DetectLimit ==
  /\ pc \in {"scanned", "scanThrew"}
  /\ limitInfo' = computeDailyTokenLimit(pc = "scanThrew", historicalBlocks)
  /\ cachedLimit' = limitInfo'
  /\ lastUpdated' = now
  /\ ranEstimator' = TRUE
  /\ pc' = "estimated"
  /\ UNCHANGED <<entries, now, subBlocks, tpBlocks, timerBlocks, subActive,
                 tpActive, timerActive, usageData, tokensLimit, info,
                 readerVars, serviceVars, historyFiles, historicalBlocks>>

SpecLimit ==
  /\ LimitInit
  /\ [][\/ ScanHistory
         \/ ScanHistoryThrows
         \/ DetectLimit]_vars

\* ---------------------------------------- state: the cache of the estimate
\* One LimitDetectionService instance over its lifetime.  Its one caller
\* awaits every getDailyTokenLimit, so a call is one step.
CACHE_TTL == 4 * HourMs

\* The transcripts of the last 30 days: none, one block above every floor,
\* a hundred blocks with a cluster around 40 million.
CacheHistories ==
  {<<>>, <<FileOfTotal(50000000)>>, FilesOfCounts(<<95, 0, 0, 3, 2, 0>>)}

\* Variant: an estimate is still fresh at the instant it expires.
isCacheFreshAtExpiry(cached, updated, clock) ==
  /\ cached # NoLimitInfo
  /\ clock - updated <= CACHE_TTL

\* this.cachedLimit && Date.now() - this.cachedLimit.lastUpdated.getTime() <
\* this.CACHE_TTL
isCacheFresh(cached, updated, clock) ==
  /\ cached # NoLimitInfo
  /\ clock - updated < CACHE_TTL

\* setManualLimit's manualLimit.
manualLimitOf(tokens) ==
  [dailyTokenLimit |-> tokens, confidence |-> "high", source |-> "configuration"]

CacheInit ==
  /\ historyFiles \in CacheHistories
  /\ historicalBlocks = <<>>
  /\ cachedLimit = NoLimitInfo
  /\ limitInfo = NoLimitInfo
  /\ lastUpdated = NoDate
  /\ ranEstimator = FALSE
  /\ entries = <<>>
  /\ pc = "idle"
  /\ now = 0
  /\ subBlocks = <<>>
  /\ tpBlocks = <<>>
  /\ timerBlocks = <<>>
  /\ subActive = 0
  /\ tpActive = 0
  /\ timerActive = 0
  /\ usageData = [totalTokens |-> Num(0), dailyUsageWithCacheRead |-> Num(0),
                  activeBlockWithCache |-> Num(0)]
  /\ tokensLimit = 0
  /\ info = [percentage |-> Num(0), tokensUsed |-> Num(0),
             tokensLimit |-> 0, isOverLimit |-> FALSE]
  /\ ReaderIdle
  /\ ServicesIdle

\* Time passes between two calls: an hour, or one millisecond less than the
\* TTL.
Tick ==
  /\ \E d \in {HourMs, CACHE_TTL - 1} :
       /\ now + d <= MaxClockHours * HourMs
       /\ now' = now + d
  /\ UNCHANGED <<entries, pc, subBlocks, tpBlocks, timerBlocks, subActive,
                 tpActive, timerActive, usageData, tokensLimit, info,
                 readerVars, serviceVars, limitVars>>

\* getDailyTokenLimit: the cached estimate while it is fresh, else the
\* estimate of a new historical scan (which may throw), cached and stamped.
GetDailyTokenLimit ==
  /\ IF isCacheFresh(cachedLimit, lastUpdated, now)
       THEN /\ limitInfo' = cachedLimit
            /\ ranEstimator' = FALSE
            /\ UNCHANGED <<historicalBlocks, cachedLimit, lastUpdated>>
       ELSE \E threw \in BOOLEAN :
              /\ historicalBlocks' = IF threw THEN historicalBlocks
                                              ELSE getHistoricalBlockUsage(historyFiles)
              /\ limitInfo' = computeDailyTokenLimit(threw, historicalBlocks')
              /\ cachedLimit' = limitInfo'
              /\ lastUpdated' = now
              /\ ranEstimator' = TRUE
  /\ pc' = "got"
  /\ UNCHANGED <<entries, now, subBlocks, tpBlocks, timerBlocks, subActive,
                 tpActive, timerActive, usageData, tokensLimit, info,
                 readerVars, serviceVars, historyFiles>>

\* setManualLimit(tokens): the override is cached, stamped and returned.
\* A configuration hands it 0 or 25,000,000.
SetManualLimit ==
  /\ \E tokens \in {0, 25000000} :
       /\ cachedLimit' = manualLimitOf(tokens)
       /\ limitInfo' = manualLimitOf(tokens)
  /\ lastUpdated' = now
  /\ pc' = "set"
  /\ UNCHANGED <<entries, now, subBlocks, tpBlocks, timerBlocks, subActive,
                 tpActive, timerActive, usageData, tokensLimit, info,
                 readerVars, serviceVars, historyFiles, historicalBlocks, ranEstimator>>

\* invalidateCache: this.cachedLimit = null.
InvalidateCache ==
  /\ cachedLimit' = NoLimitInfo
  /\ lastUpdated' = NoDate
  /\ pc' = "invalidated"
  /\ UNCHANGED <<entries, now, subBlocks, tpBlocks, timerBlocks, subActive,
                 tpActive, timerActive, usageData, tokensLimit, info,
                 readerVars, serviceVars, historyFiles, historicalBlocks, limitInfo,
                 ranEstimator>>

SpecCache ==
  /\ CacheInit
  /\ [][\/ Tick
         \/ GetDailyTokenLimit
         \/ SetManualLimit
         \/ InvalidateCache]_vars

\* ------------------------------------------------ overlapping calls
\* getDailyTokenLimit up to its await: with a fresh cache it returns the
\* cached estimate, else it starts the historical scan and is suspended.
BeginGetDailyTokenLimit ==
  /\ IF isCacheFresh(cachedLimit, lastUpdated, now)
       THEN /\ limitInfo' = cachedLimit
            /\ ranEstimator' = FALSE
            /\ pc' = "got"
            /\ UNCHANGED inFlight
       ELSE /\ inFlight < MaxInFlight
            /\ inFlight' = inFlight + 1
            /\ pc' = "suspended"
            /\ UNCHANGED <<limitInfo, ranEstimator>>
  /\ UNCHANGED <<entries, now, subBlocks, tpBlocks, timerBlocks, subActive,
                 tpActive, timerActive, usageData, tokensLimit, info,
                 readerVars, metricVars, pricingVars, cachedResetTime,
                 resetDetectedAt, ranDetection, dailyCost, calculatedCosts,
                 historyFiles, historicalBlocks, cachedLimit, lastUpdated>>

\* getDailyTokenLimit from its await on: the scan has returned or thrown,
\* the estimate is assigned to this.cachedLimit and returned.
CompleteGetDailyTokenLimit ==
  /\ inFlight > 0
  /\ inFlight' = inFlight - 1
  /\ \E threw \in BOOLEAN :
       /\ historicalBlocks' = IF threw THEN historicalBlocks
                                       ELSE getHistoricalBlockUsage(historyFiles)
       /\ limitInfo' = computeDailyTokenLimit(threw, historicalBlocks')
       /\ cachedLimit' = limitInfo'
       /\ lastUpdated' = now
       /\ ranEstimator' = TRUE
  /\ pc' = "got"
  /\ UNCHANGED <<entries, now, subBlocks, tpBlocks, timerBlocks, subActive,
                 tpActive, timerActive, usageData, tokensLimit, info,
                 readerVars, metricVars, pricingVars, cachedResetTime,
                 resetDetectedAt, ranDetection, dailyCost, calculatedCosts,
                 historyFiles>>

SpecOverlap ==
  CacheInit /\ [][\/ Tick
                  \/ BeginGetDailyTokenLimit
                  \/ CompleteGetDailyTokenLimit
                  \/ SetManualLimit]_vars

\* ------------------------------------------------------------- burn rate
RECURSIVE gcd(_, _)
gcd(a, b) == IF b = 0 THEN a ELSE gcd(b, a % b)

Infinity == [kind |-> "Infinity", v |-> 0]

\* The JavaScript number a / b for a >= 0 and b >= 0, as a fraction in
\* lowest terms; 0 / 0 is NaN and a / 0 is Infinity.
Quotient(a, b) ==
  IF b = 0
    THEN [kind |-> IF a = 0 THEN "NaN" ELSE "Infinity", num |-> 0, den |-> 0]
    ELSE [kind |-> "number", num |-> a \div gcd(a, b), den |-> b \div gcd(a, b)]

\* Math.round(c + q * r) for a whole number c and fractions q and r.
roundedSum(c, q, r) ==
  IF q.kind = "number" /\ r.kind = "number"
    THEN Num(c + RoundDiv(q.num * r.num, q.den * r.den))
  ELSE IF r.kind = "number" /\ r.num = 0
    THEN NaN
  ELSE [kind |-> q.kind, v |-> 0]

\* Lines of the session transcript BurnRateService reads: turns over the
\* instants, and a sidechain line, a line without usage, a line without
\* timestamp, a line without tokens, a line that does not parse.
BurnLines ==
  {LogLine("json", TRUE, TRUE, t, 0, 0, FALSE, 10, 20, 0, 0, 0) : t \in Instants}
    \cup {LogLine("json", TRUE, TRUE, m * MinuteMs, 0, 0, FALSE, 1, 2, 4, 8, 0) : m \in {60, 360}}
    \cup { LogLine("json", TRUE, TRUE, 60 * MinuteMs, 0, 0, TRUE, 10, 20, 0, 0, 0),
           LogLine("json", TRUE, FALSE, 60 * MinuteMs, 0, 0, FALSE, 0, 0, 0, 0, 0),
           LogLine("json", TRUE, TRUE, NoDate, 0, 0, FALSE, 10, 20, 0, 0, 0),
           LogLine("json", TRUE, TRUE, 330 * MinuteMs, 0, 0, FALSE, 0, 0, 0, 0, 0),
           LogLine("badjson", FALSE, FALSE, NoDate, 0, 0, FALSE, 0, 0, 0, 0, 0) }

\* The test of the line loop of parseTranscriptEntries: the line parses, is
\* no sidechain line, has usage and a timestamp, and has tokens.
hasTokens(usage) ==
  \/ usage.input_tokens > 0
  \/ usage.output_tokens > 0
  \/ usage.cache_creation_input_tokens > 0
  \/ usage.cache_read_input_tokens > 0

keepsBurnLine(line) ==
  /\ line.shape = "json"
  /\ ~line.isSidechain
  /\ line.hasMessage
  /\ line.hasUsage
  /\ line.timestamp # NoDate
  /\ hasTokens(line.usage)

\* BurnRateService.parseTranscriptEntries: the kept lines, sorted by
\* timestamp.
parseTranscriptEntries(lines) == sortedEntriesOf(SelectSeq(lines, keepsBurnLine))

RECURSIVE sumOver(_, _)
sumOver(es, field) ==
  IF es = <<>> THEN 0 ELSE Head(es).usage[field] + sumOver(Tail(es), field)

\* BurnRateService.projectUsage, its token part: the session of the
\* projection starts at the hour of the first entry.
projectUsage(es, tokensPerMinute, clock) ==
  IF Len(es) = 0 \/ es[1].timestamp = NoDate
    THEN [kind |-> "null"]
    ELSE
      LET sessionEnd == floorToHour(es[1].timestamp) + sessionDurationMs
          remainingTime == sessionEnd - clock
          remainingMinutes == IF remainingTime > 0
                                THEN Quotient(remainingTime, MinuteMs)
                                ELSE Quotient(0, 1)
          currentTotalTokens == sumOver(es, "input_tokens")
                                  + sumOver(es, "output_tokens")
                                  + sumOver(es, "cache_creation_input_tokens")
                                  + sumOver(es, "cache_read_input_tokens")
      IN [kind |-> "projection",
          totalTokens |-> roundedSum(currentTotalTokens, tokensPerMinute,
                                     remainingMinutes),
          remainingMinutes |-> RoundDiv(remainingMinutes.num, remainingMinutes.den)]

\* What calculateBurnRate returns once its guards have passed.  The cost
\* fields of the result (costPerHour, projection.totalCost) are left out.
burnRateOf(es, durationMs, clock) ==
  LET totalInputTokens == sumOver(es, "input_tokens")
      totalOutputTokens == sumOver(es, "output_tokens")
      totalTokens == totalInputTokens + totalOutputTokens
                       + sumOver(es, "cache_creation_input_tokens")
                       + sumOver(es, "cache_read_input_tokens")
      tokensPerMinute == Quotient(totalTokens * MinuteMs, durationMs)
  IN [kind |-> "info",
      tokensPerMinute |-> tokensPerMinute,
      tokensPerMinuteForIndicator |->
        Quotient((totalInputTokens + totalOutputTokens) * MinuteMs, durationMs),
      projection |-> projectUsage(es, tokensPerMinute, clock)]

\* Variant: without the test of the duration.
calculateBurnRateUnguarded(es, clock) ==
  IF Len(es) < 2
    THEN [kind |-> "null"]
    ELSE burnRateOf(es, es[Len(es)].timestamp - es[1].timestamp, clock)

\* BurnRateService.calculateBurnRate.
calculateBurnRate(es, clock) ==
  IF Len(es) < 2
    THEN [kind |-> "null"]
  ELSE IF es[1].timestamp = NoDate \/ es[Len(es)].timestamp = NoDate
    THEN [kind |-> "null"]
  ELSE IF es[Len(es)].timestamp - es[1].timestamp <= 0
    THEN [kind |-> "null"]
  ELSE burnRateOf(es, es[Len(es)].timestamp - es[1].timestamp, clock)

\* BurnRateService.getBurnRateInfo for a transcript path: a file that is
\* missing or cannot be read gives null.
getBurnRateInfo(file, clock) ==
  IF ~file.readable
    THEN [kind |-> "null"]
    ELSE LET es == parseTranscriptEntries(file.lines)
         IN IF Len(es) < 2 THEN [kind |-> "null"] ELSE calculateBurnRate(es, clock)

\* The session transcript has up to MaxLines lines.
BurnInit ==
  /\ \E readable \in BOOLEAN :
     \E lines \in BoundedSeq(BurnLines, MaxLines) :
       /\ ~readable => lines = <<>>
       /\ transcriptFiles = << TranscriptFile(readable, lines) >>
  /\ fileIndex = 0
  /\ parsed = <<>>
  /\ seenHashes = {}
  /\ entries = <<>>
  /\ pc = "idle"
  /\ RenderIdle
  /\ LimitIdle
  /\ ServicesIdle

\* The render asks for the burn rate at some instant.
GetBurnRateInfo ==
  /\ pc = "idle"
  /\ \E clock \in Instants :
       /\ now' = clock
       /\ burnRateInfo' = getBurnRateInfo(transcriptFiles[1], clock)
  /\ pc' = "burned"
  /\ UNCHANGED <<entries, subBlocks, tpBlocks, timerBlocks, subActive,
                 tpActive, timerActive, usageData, tokensLimit, info,
                 readerVars, limitVars, timerInfo, activeBlockArg,
                 segmentTimerInfo, resetTimeInfo, pricingVars, extraVars>>

SpecBurn == BurnInit /\ [][GetBurnRateInfo]_vars

\* ---------------------------------------------------------- reset timers
DayMs == 24 * HourMs

Max0(x) == IF x > 0 THEN x ELSE 0

\* formatTimeRemaining and formatElapsedTime of the transcript-based timer:
\* the hours and minutes the string shows ("0m" for no minute left).
formatTimeRemaining(minutes) ==
  IF minutes <= 0 THEN [hours |-> 0, minutes |-> 0]
  ELSE [hours |-> minutes \div 60, minutes |-> minutes % 60]

\* Variant: the countdown is not floored at zero.
sessionTimerOfUnfloored(block, clock) ==
  LET timeRemainingMs == block.endTime - clock
      timeRemainingMinutes == RoundDiv(timeRemainingMs, MinuteMs)
  IN [kind |-> "info",
      timeRemainingMs |-> timeRemainingMs,
      timeRemaining |-> formatTimeRemaining(timeRemainingMinutes),
      resetTime |-> block.endTime,
      isNearReset |-> timeRemainingMinutes < 30]

\* SessionTimerService.getSessionTimer of the transcript-based timer, from
\* the active block on.  timeRemainingMs is the countdown the reported
\* fields are derived from; the elapsed time (a debugging field) is left
\* out.
sessionTimerOf(block, clock) ==
  LET timeRemainingMs == Max0(block.endTime - clock)
      timeRemainingMinutes == RoundDiv(timeRemainingMs, MinuteMs)
  IN [kind |-> "info",
      timeRemainingMs |-> timeRemainingMs,
      timeRemaining |-> formatTimeRemaining(timeRemainingMinutes),
      resetTime |-> block.endTime,
      isNearReset |-> timeRemainingMinutes < 30]

\* The block of ccusage's output a render hands to the session timer
\* segment: none, or a block with an endTime and, when the API announced
\* one, a usageLimitResetTime (NoDate for an absent field).
CcusageBlocks ==
  {[kind |-> "null"]}
    \cup {[kind |-> "block", endTime |-> e, usageLimitResetTime |-> r] :
            e \in {NoDate, 300 * MinuteMs, 390 * MinuteMs + 500},
            r \in {NoDate, 360 * MinuteMs}}

\* Variant: Math.floor without Math.max.
segmentGetSessionTimerUnfloored(activeBlock, clock) ==
  IF activeBlock.kind = "null"
    THEN [kind |-> "null"]
  ELSE IF activeBlock.usageLimitResetTime = NoDate /\ activeBlock.endTime = NoDate
    THEN [kind |-> "null"]
  ELSE
    LET resetTime == IF activeBlock.usageLimitResetTime # NoDate
                       THEN activeBlock.usageLimitResetTime
                       ELSE activeBlock.endTime
        remainingSeconds == (resetTime - clock) \div 1000
    IN [kind |-> "info",
        remainingSeconds |-> remainingSeconds,
        hours |-> remainingSeconds \div 3600,
        minutes |-> (remainingSeconds % 3600) \div 60,
        resetTime |-> resetTime,
        isNearReset |-> remainingSeconds < 30 * 60]

\* SessionTimerService.getSessionTimer of the session timer segment.
\* remainingSeconds, hours and minutes are what the timeRemaining string is
\* made of.
segmentGetSessionTimer(activeBlock, clock) ==
  IF activeBlock.kind = "null"
    THEN [kind |-> "null"]
  ELSE IF activeBlock.usageLimitResetTime = NoDate /\ activeBlock.endTime = NoDate
    THEN [kind |-> "null"]
  ELSE
    LET resetTime == IF activeBlock.usageLimitResetTime # NoDate
                       THEN activeBlock.usageLimitResetTime
                       ELSE activeBlock.endTime
        remainingSeconds == Max0((resetTime - clock) \div 1000)
    IN [kind |-> "info",
        remainingSeconds |-> remainingSeconds,
        hours |-> remainingSeconds \div 3600,
        minutes |-> (remainingSeconds % 3600) \div 60,
        resetTime |-> resetTime,
        isNearReset |-> remainingSeconds < 30 * 60]

\* ResetTimeDetectionService.getFallbackResetTime: the next local midnight.
getFallbackResetTime(clock, offset) ==
  LET nextMidnight == clock - ((clock + offset) % DayMs) + DayMs
  IN [kind |-> "info", resetTime |-> nextMidnight, confidence |-> "fallback",
      source |-> "fallback", timeRemaining |-> Max0(nextMidnight - clock)]

\* ResetTimeDetectionService.detectFromBlockPattern, given whether reading
\* the transcripts threw, the usageLimitResetTime found in them and the
\* entries of today.
detectFromBlockPattern(threw, usageLimitResetTime, es, clock, offset) ==
  IF threw
    THEN getFallbackResetTime(clock, offset)
  ELSE IF usageLimitResetTime # NoDate
    THEN [kind |-> "info", resetTime |-> usageLimitResetTime,
          confidence |-> "high", source |-> "usage_pattern",
          timeRemaining |-> Max0(usageLimitResetTime - clock)]
  ELSE IF Len(es) > 0
    THEN LET first == sortedEntriesOf(es)[1].timestamp
             blockStartTime == first - ((first + offset) % HourMs)
             blockEnd == blockStartTime + 5 * HourMs
             resetTime == IF blockEnd <= clock THEN blockEnd + 5 * HourMs
                                              ELSE blockEnd
         IN [kind |-> "info", resetTime |-> resetTime, confidence |-> "medium",
             source |-> "usage_pattern",
             timeRemaining |-> Max0(resetTime - clock)]
  ELSE getFallbackResetTime(clock, offset)

\* The records of today the timers work on are those of one kind of turn.
TimerInit ==
  /\ entries \in BoundedSeq({e \in Entries : e.usage.inputTokens = 10},
                           MaxEntries)
  /\ pc = "read"
  /\ RenderIdle
  /\ ReaderIdle
  /\ LimitIdle
  /\ ServicesIdle

\* getSessionTimer of the transcript-based timer, after its findActiveBlock:
\* the clock is read a second time.
GetSessionTimer ==
  /\ pc = "resolved"
  /\ \E clock \in Instants :
       /\ clock >= now
       /\ now' = clock
       /\ timerInfo' = IF timerActive = 0
                         THEN [kind |-> "null"]
                         ELSE sessionTimerOf(timerBlocks[timerActive], clock)
  /\ pc' = "timed"
  /\ UNCHANGED <<entries, subBlocks, tpBlocks, timerBlocks, subActive,
                 tpActive, timerActive, usageData, tokensLimit, info,
                 readerVars, limitVars, burnRateInfo, activeBlockArg,
                 segmentTimerInfo, resetTimeInfo, pricingVars, extraVars>>

\* The render hands the active block of ccusage's output to the session
\* timer segment.
GetSegmentSessionTimer ==
  /\ pc = "read"
  /\ \E block \in CcusageBlocks : \E clock \in Instants :
       /\ activeBlockArg' = block
       /\ now' = clock
       /\ segmentTimerInfo' = segmentGetSessionTimer(block, clock)
  /\ pc' = "segmentTimed"
  /\ UNCHANGED <<entries, subBlocks, tpBlocks, timerBlocks, subActive,
                 tpActive, timerActive, usageData, tokensLimit, info,
                 readerVars, limitVars, burnRateInfo, timerInfo,
                 resetTimeInfo, pricingVars, extraVars>>

\* detectFromBlockPattern over the transcripts of today.
\* The first usageLimitResetTime of the transcripts is absent or 06:00; local
\* time is UTC or half an hour ahead.
DetectFromBlockPattern ==
  /\ pc = "read"
  /\ \E threw \in BOOLEAN : \E reset \in {NoDate, 360 * MinuteMs} :
     \E clock \in Instants : \E offset \in {0, 30 * MinuteMs} :
       /\ now' = clock
       /\ resetTimeInfo' = detectFromBlockPattern(threw, reset, entries,
                                                  clock, offset)
  /\ pc' = "resetDetected"
  /\ UNCHANGED <<entries, subBlocks, tpBlocks, timerBlocks, subActive,
                 tpActive, timerActive, usageData, tokensLimit, info,
                 readerVars, limitVars, burnRateInfo, timerInfo,
                 activeBlockArg, segmentTimerInfo, pricingVars,
                 extraVars>>

SpecTimer ==
  /\ TimerInit
  /\ [][\/ Partition
         \/ Resolve
         \/ GetSessionTimer
         \/ GetSegmentSessionTimer
         \/ DetectFromBlockPattern]_vars

\* ------------------------------------------------ the reset-time cache
\* The freshness test of getResetTime, with CACHE_TTL = 30 * 60 * 1000: the
\* clock is compared with the cached resetTime.
isResetCacheFresh(cached, clock) ==
  LET CACHE_TTL_30_MIN == 30 * MinuteMs
  IN cached.kind = "info" /\ clock - cached.resetTime > -CACHE_TTL_30_MIN

\* ResetTimeDetectionService.detectResetTime: the block pattern, then the
\* first usage of today (detectFromFirstUsageToday: 24 h after the earliest
\* entry of today, 24 h more when that has passed), then the fallback.
detectResetTime(threwBlock, threwFirst, usageLimitResetTime, es, clock, offset) ==
  LET blockBasedTime == detectFromBlockPattern(threwBlock, usageLimitResetTime,
                                               es, clock, offset)
      earliest == sortedEntriesOf(es)[1].timestamp
      resetTime == IF earliest + DayMs <= clock THEN earliest + 2 * DayMs
                                                ELSE earliest + DayMs
      firstUsageTime ==
        IF threwFirst \/ Len(es) = 0
          THEN getFallbackResetTime(clock, offset)
          ELSE [kind |-> "info", resetTime |-> resetTime, confidence |-> "low",
                source |-> "first_usage_extrapolation",
                timeRemaining |-> Max0(resetTime - clock)]
  IN IF blockBasedTime.confidence # "fallback" THEN blockBasedTime
     ELSE IF firstUsageTime.confidence # "fallback" THEN firstUsageTime
     ELSE getFallbackResetTime(clock, offset)

\* The transcripts of today hold nothing, or one or two records.
ResetInit ==
  /\ entries \in {<<>>,
                  <<[timestamp |-> 30 * MinuteMs, usage |-> CHOOSE u \in Usages : u.inputTokens = 10]>>,
                  <<[timestamp |-> 330 * MinuteMs, usage |-> CHOOSE u \in Usages : u.inputTokens = 10],
                    [timestamp |-> 60 * MinuteMs, usage |-> CHOOSE u \in Usages : u.inputTokens = 10]>>}
  /\ pc = "idle"
  /\ now = 30 * MinuteMs
  /\ subBlocks = <<>>
  /\ tpBlocks = <<>>
  /\ timerBlocks = <<>>
  /\ subActive = 0
  /\ tpActive = 0
  /\ timerActive = 0
  /\ usageData = [totalTokens |-> Num(0), dailyUsageWithCacheRead |-> Num(0),
                  activeBlockWithCache |-> Num(0)]
  /\ tokensLimit = 0
  /\ info = [percentage |-> Num(0), tokensUsed |-> Num(0),
             tokensLimit |-> 0, isOverLimit |-> FALSE]
  /\ ReaderIdle
  /\ LimitIdle
  /\ ServicesIdle

\* Time passes between two calls: 20 minutes or an hour.
ResetTick ==
  /\ \E d \in {20 * MinuteMs, HourMs} :
       /\ now + d <= MaxClockHours * HourMs
       /\ now' = now + d
  /\ UNCHANGED <<entries, pc, subBlocks, tpBlocks, timerBlocks, subActive,
                 tpActive, timerActive, usageData, tokensLimit, info,
                 readerVars, limitVars, serviceVars>>

\* getResetTime: the cached value while the freshness test passes, else the
\* detection, whose result (or the fallback, when it throws) is cached.
\* The first usageLimitResetTime of the transcripts is absent or 06:00.
GetResetTime ==
  /\ IF isResetCacheFresh(cachedResetTime, now)
       THEN /\ resetTimeInfo' = cachedResetTime
            /\ ranDetection' = FALSE
            /\ UNCHANGED <<cachedResetTime, resetDetectedAt>>
       ELSE \E threwBlock, threwFirst \in BOOLEAN :
            \E reset \in {NoDate, 360 * MinuteMs} :
              /\ resetTimeInfo' = detectResetTime(threwBlock, threwFirst, reset,
                                                  entries, now, 0)
              /\ cachedResetTime' = resetTimeInfo'
              /\ resetDetectedAt' = now
              /\ ranDetection' = TRUE
  /\ pc' = "gotResetTime"
  /\ UNCHANGED <<entries, now, subBlocks, tpBlocks, timerBlocks, subActive,
                 tpActive, timerActive, usageData, tokensLimit, info,
                 readerVars, limitVars, burnRateInfo, timerInfo,
                 activeBlockArg, segmentTimerInfo, pricingVars, inFlight,
                 dailyCost, calculatedCosts>>

\* ResetTimeDetectionService.invalidateCache
InvalidateResetCache ==
  /\ cachedResetTime' = [kind |-> "null"]
  /\ pc' = "resetInvalidated"
  /\ UNCHANGED <<entries, now, subBlocks, tpBlocks, timerBlocks, subActive,
                 tpActive, timerActive, usageData, tokensLimit, info,
                 readerVars, limitVars, metricVars, pricingVars,
                 resetDetectedAt, ranDetection, inFlight, dailyCost,
                 calculatedCosts>>

SpecReset ==
  ResetInit /\ [][ResetTick \/ GetResetTime \/ InvalidateResetCache]_vars

\* ---------------------------------------------------------------- pricing
\* Strings are sequences of characters.
\* String.prototype.toLowerCase, on the letters A to Z.
toLowerCase(str) ==
  LET UpperCaseLetters ==
        <<"A", "B", "C", "D", "E", "F", "G", "H", "I", "J", "K", "L", "M",
          "N", "O", "P", "Q", "R", "S", "T", "U", "V", "W", "X", "Y", "Z">>
      LowerCaseLetters ==
        <<"a", "b", "c", "d", "e", "f", "g", "h", "i", "j", "k", "l", "m",
          "n", "o", "p", "q", "r", "s", "t", "u", "v", "w", "x", "y", "z">>
      toLowerCaseChar(c) ==
        IF \E i \in 1..26 : UpperCaseLetters[i] = c
          THEN LowerCaseLetters[CHOOSE i \in 1..26 : UpperCaseLetters[i] = c]
          ELSE c
  IN [i \in 1..Len(str) |-> toLowerCaseChar(str[i])]

\* String.prototype.includes
includes(str, p) ==
  \E i \in 0..(Len(str) - Len(p)) : SubSeq(str, i + 1, i + Len(p)) = p

\* The string literals of pricing.ts and the model identifiers and table
\* keys that are looked up, each as its sequence of characters.
Literals ==
  [ s_claude_3_haiku_20240307 |->   \* 'claude-3-haiku-20240307'
        <<"c", "l", "a", "u", "d", "e", "-", "3", "-", "h", "a", "i", "k",
          "u", "-", "2", "0", "2", "4", "0", "3", "0", "7">>,
    n_Claude_3_Haiku |->   \* 'Claude 3 Haiku'
        <<"C", "l", "a", "u", "d", "e", " ", "3", " ", "H", "a", "i", "k",
          "u">>,
    s_claude_3_5_haiku_20241022 |->   \* 'claude-3-5-haiku-20241022'
        <<"c", "l", "a", "u", "d", "e", "-", "3", "-", "5", "-", "h", "a",
          "i", "k", "u", "-", "2", "0", "2", "4", "1", "0", "2", "2">>,
    n_Claude_3_5_Haiku |->   \* 'Claude 3.5 Haiku'
        <<"C", "l", "a", "u", "d", "e", " ", "3", ".", "5", " ", "H", "a",
          "i", "k", "u">>,
    s_claude_3_5_haiku_latest |->   \* 'claude-3-5-haiku-latest'
        <<"c", "l", "a", "u", "d", "e", "-", "3", "-", "5", "-", "h", "a",
          "i", "k", "u", "-", "l", "a", "t", "e", "s", "t">>,
    n_Claude_3_5_Haiku_Latest |->   \* 'Claude 3.5 Haiku Latest'
        <<"C", "l", "a", "u", "d", "e", " ", "3", ".", "5", " ", "H", "a",
          "i", "k", "u", " ", "L", "a", "t", "e", "s", "t">>,
    s_claude_3_opus_latest |->   \* 'claude-3-opus-latest'
        <<"c", "l", "a", "u", "d", "e", "-", "3", "-", "o", "p", "u", "s",
          "-", "l", "a", "t", "e", "s", "t">>,
    n_Claude_3_Opus_Latest |->   \* 'Claude 3 Opus Latest'
        <<"C", "l", "a", "u", "d", "e", " ", "3", " ", "O", "p", "u", "s",
          " ", "L", "a", "t", "e", "s", "t">>,
    s_claude_3_opus_20240229 |->   \* 'claude-3-opus-20240229'
        <<"c", "l", "a", "u", "d", "e", "-", "3", "-", "o", "p", "u", "s",
          "-", "2", "0", "2", "4", "0", "2", "2", "9">>,
    n_Claude_3_Opus |->   \* 'Claude 3 Opus'
        <<"C", "l", "a", "u", "d", "e", " ", "3", " ", "O", "p", "u", "s">>,
    s_claude_3_5_sonnet_latest |->   \* 'claude-3-5-sonnet-latest'
        <<"c", "l", "a", "u", "d", "e", "-", "3", "-", "5", "-", "s", "o",
          "n", "n", "e", "t", "-", "l", "a", "t", "e", "s", "t">>,
    n_Claude_3_5_Sonnet_Latest |->   \* 'Claude 3.5 Sonnet Latest'
        <<"C", "l", "a", "u", "d", "e", " ", "3", ".", "5", " ", "S", "o",
          "n", "n", "e", "t", " ", "L", "a", "t", "e", "s", "t">>,
    s_claude_3_5_sonnet_20240620 |->   \* 'claude-3-5-sonnet-20240620'
        <<"c", "l", "a", "u", "d", "e", "-", "3", "-", "5", "-", "s", "o",
          "n", "n", "e", "t", "-", "2", "0", "2", "4", "0", "6", "2", "0">>,
    n_Claude_3_5_Sonnet |->   \* 'Claude 3.5 Sonnet'
        <<"C", "l", "a", "u", "d", "e", " ", "3", ".", "5", " ", "S", "o",
          "n", "n", "e", "t">>,
    s_claude_3_5_sonnet_20241022 |->   \* 'claude-3-5-sonnet-20241022'
        <<"c", "l", "a", "u", "d", "e", "-", "3", "-", "5", "-", "s", "o",
          "n", "n", "e", "t", "-", "2", "0", "2", "4", "1", "0", "2", "2">>,
    s_claude_opus_4_20250514 |->   \* 'claude-opus-4-20250514'
        <<"c", "l", "a", "u", "d", "e", "-", "o", "p", "u", "s", "-", "4",
          "-", "2", "0", "2", "5", "0", "5", "1", "4">>,
    n_Claude_Opus_4 |->   \* 'Claude Opus 4'
        <<"C", "l", "a", "u", "d", "e", " ", "O", "p", "u", "s", " ", "4">>,
    s_claude_opus_4_1 |->   \* 'claude-opus-4-1'
        <<"c", "l", "a", "u", "d", "e", "-", "o", "p", "u", "s", "-", "4",
          "-", "1">>,
    n_Claude_Opus_4_1 |->   \* 'Claude Opus 4.1'
        <<"C", "l", "a", "u", "d", "e", " ", "O", "p", "u", "s", " ", "4",
          ".", "1">>,
    s_claude_opus_4_1_20250805 |->   \* 'claude-opus-4-1-20250805'
        <<"c", "l", "a", "u", "d", "e", "-", "o", "p", "u", "s", "-", "4",
          "-", "1", "-", "2", "0", "2", "5", "0", "8", "0", "5">>,
    s_claude_sonnet_4_20250514 |->   \* 'claude-sonnet-4-20250514'
        <<"c", "l", "a", "u", "d", "e", "-", "s", "o", "n", "n", "e", "t",
          "-", "4", "-", "2", "0", "2", "5", "0", "5", "1", "4">>,
    n_Claude_Sonnet_4 |->   \* 'Claude Sonnet 4'
        <<"C", "l", "a", "u", "d", "e", " ", "S", "o", "n", "n", "e", "t",
          " ", "4">>,
    s_claude_4_opus_20250514 |->   \* 'claude-4-opus-20250514'
        <<"c", "l", "a", "u", "d", "e", "-", "4", "-", "o", "p", "u", "s",
          "-", "2", "0", "2", "5", "0", "5", "1", "4">>,
    n_Claude_4_Opus |->   \* 'Claude 4 Opus'
        <<"C", "l", "a", "u", "d", "e", " ", "4", " ", "O", "p", "u", "s">>,
    s_claude_4_sonnet_20250514 |->   \* 'claude-4-sonnet-20250514'
        <<"c", "l", "a", "u", "d", "e", "-", "4", "-", "s", "o", "n", "n",
          "e", "t", "-", "2", "0", "2", "5", "0", "5", "1", "4">>,
    n_Claude_4_Sonnet |->   \* 'Claude 4 Sonnet'
        <<"C", "l", "a", "u", "d", "e", " ", "4", " ", "S", "o", "n", "n",
          "e", "t">>,
    s_claude_3_7_sonnet_latest |->   \* 'claude-3-7-sonnet-latest'
        <<"c", "l", "a", "u", "d", "e", "-", "3", "-", "7", "-", "s", "o",
          "n", "n", "e", "t", "-", "l", "a", "t", "e", "s", "t">>,
    n_Claude_3_7_Sonnet_Latest |->   \* 'Claude 3.7 Sonnet Latest'
        <<"C", "l", "a", "u", "d", "e", " ", "3", ".", "7", " ", "S", "o",
          "n", "n", "e", "t", " ", "L", "a", "t", "e", "s", "t">>,
    s_claude_3_7_sonnet_20250219 |->   \* 'claude-3-7-sonnet-20250219'
        <<"c", "l", "a", "u", "d", "e", "-", "3", "-", "7", "-", "s", "o",
          "n", "n", "e", "t", "-", "2", "0", "2", "5", "0", "2", "1", "9">>,
    n_Claude_3_7_Sonnet |->   \* 'Claude 3.7 Sonnet'
        <<"C", "l", "a", "u", "d", "e", " ", "3", ".", "7", " ", "S", "o",
          "n", "n", "e", "t">>,
    s_opus_4_1 |->   \* 'opus-4-1'
        <<"o", "p", "u", "s", "-", "4", "-", "1">>,
    s_opus_4 |->   \* 'opus-4'
        <<"o", "p", "u", "s", "-", "4">>,
    s_claude_opus_4 |->   \* 'claude-opus-4'
        <<"c", "l", "a", "u", "d", "e", "-", "o", "p", "u", "s", "-", "4">>,
    s_sonnet_4 |->   \* 'sonnet-4'
        <<"s", "o", "n", "n", "e", "t", "-", "4">>,
    s_claude_sonnet_4 |->   \* 'claude-sonnet-4'
        <<"c", "l", "a", "u", "d", "e", "-", "s", "o", "n", "n", "e", "t",
          "-", "4">>,
    s_sonnet_3_7 |->   \* 'sonnet-3.7'
        <<"s", "o", "n", "n", "e", "t", "-", "3", ".", "7">>,
    s_3_7_sonnet |->   \* '3-7-sonnet'
        <<"3", "-", "7", "-", "s", "o", "n", "n", "e", "t">>,
    s_3_5_sonnet |->   \* '3-5-sonnet'
        <<"3", "-", "5", "-", "s", "o", "n", "n", "e", "t">>,
    s_sonnet_3_5 |->   \* 'sonnet-3.5'
        <<"s", "o", "n", "n", "e", "t", "-", "3", ".", "5">>,
    s_3_5_haiku |->   \* '3-5-haiku'
        <<"3", "-", "5", "-", "h", "a", "i", "k", "u">>,
    s_haiku_3_5 |->   \* 'haiku-3.5'
        <<"h", "a", "i", "k", "u", "-", "3", ".", "5">>,
    s_haiku |->   \* 'haiku'
        <<"h", "a", "i", "k", "u">>,
    s_3_haiku |->   \* '3-haiku'
        <<"3", "-", "h", "a", "i", "k", "u">>,
    s_opus |->   \* 'opus'
        <<"o", "p", "u", "s">>,
    s_sonnet |->   \* 'sonnet'
        <<"s", "o", "n", "n", "e", "t">>,
    MetaKey |->   \* '_meta'
        <<"_", "m", "e", "t", "a">>,
    UnknownModelSuffix |->   \* ' (Unknown Model)'
        <<" ", "(", "U", "n", "k", "n", "o", "w", "n", " ", "M", "o", "d",
          "e", "l", ")">>,
    s_Claude_Opus_4_1_20250805 |->   \* 'Claude-Opus-4-1-20250805'
        <<"C", "l", "a", "u", "d", "e", "-", "O", "p", "u", "s", "-", "4",
          "-", "1", "-", "2", "0", "2", "5", "0", "8", "0", "5">>,
    s_Claude_3_Haiku_20240307 |->   \* 'Claude-3-Haiku-20240307'
        <<"C", "l", "a", "u", "d", "e", "-", "3", "-", "H", "a", "i", "k",
          "u", "-", "2", "0", "2", "4", "0", "3", "0", "7">>,
    s_gpt_4 |->   \* 'gpt-4'
        <<"g", "p", "t", "-", "4">> ]

\* A ModelPricing object; the prices are in cents per million tokens.
Pricing(name, input, output, cache_write_5m, cache_write_1h, cache_read) ==
  [kind |-> "object", name |-> name, input |-> Num(input),
   output |-> Num(output), cache_write_5m |-> Num(cache_write_5m),
   cache_write_1h |-> Num(cache_write_1h), cache_read |-> Num(cache_read)]

\* One entry of Object.entries of a table: tables are the sequences of
\* their entries, in insertion order.
Row(key, value) == [key |-> key, value |-> value]

OFFLINE_PRICING_DATA ==
  <<
     Row(Literals.s_claude_3_haiku_20240307,
         Pricing(Literals.n_Claude_3_Haiku, 25, 125, 30, 50, 3)),
     Row(Literals.s_claude_3_5_haiku_20241022,
         Pricing(Literals.n_Claude_3_5_Haiku, 80, 400, 100, 160, 8)),
     Row(Literals.s_claude_3_5_haiku_latest,
         Pricing(Literals.n_Claude_3_5_Haiku_Latest, 100, 500, 125, 200, 10)),
     Row(Literals.s_claude_3_opus_latest,
         Pricing(Literals.n_Claude_3_Opus_Latest, 1500, 7500, 1875, 3000, 150)),
     Row(Literals.s_claude_3_opus_20240229,
         Pricing(Literals.n_Claude_3_Opus, 1500, 7500, 1875, 3000, 150)),
     Row(Literals.s_claude_3_5_sonnet_latest,
         Pricing(Literals.n_Claude_3_5_Sonnet_Latest, 300, 1500, 375, 600, 30)),
     Row(Literals.s_claude_3_5_sonnet_20240620,
         Pricing(Literals.n_Claude_3_5_Sonnet, 300, 1500, 375, 600, 30)),
     Row(Literals.s_claude_3_5_sonnet_20241022,
         Pricing(Literals.n_Claude_3_5_Sonnet, 300, 1500, 375, 600, 30)),
     Row(Literals.s_claude_opus_4_20250514,
         Pricing(Literals.n_Claude_Opus_4, 1500, 7500, 1875, 3000, 150)),
     Row(Literals.s_claude_opus_4_1,
         Pricing(Literals.n_Claude_Opus_4_1, 1500, 7500, 1875, 3000, 150)),
     Row(Literals.s_claude_opus_4_1_20250805,
         Pricing(Literals.n_Claude_Opus_4_1, 1500, 7500, 1875, 3000, 150)),
     Row(Literals.s_claude_sonnet_4_20250514,
         Pricing(Literals.n_Claude_Sonnet_4, 300, 1500, 375, 600, 30)),
     Row(Literals.s_claude_4_opus_20250514,
         Pricing(Literals.n_Claude_4_Opus, 1500, 7500, 1875, 3000, 150)),
     Row(Literals.s_claude_4_sonnet_20250514,
         Pricing(Literals.n_Claude_4_Sonnet, 300, 1500, 375, 600, 30)),
     Row(Literals.s_claude_3_7_sonnet_latest,
         Pricing(Literals.n_Claude_3_7_Sonnet_Latest, 300, 1500, 375, 600, 30)),
     Row(Literals.s_claude_3_7_sonnet_20250219,
         Pricing(Literals.n_Claude_3_7_Sonnet, 300, 1500, 375, 600, 30))
  >>

\* A table the remote pricing.json may hold: the prices of 3.5 Sonnet were
\* raised, most models are missing.
RemoteTable ==
  << Row(Literals.s_claude_opus_4_1_20250805, Pricing(Literals.n_Claude_Opus_4_1, 1500, 7500, 1875, 3000, 150)),
     Row(Literals.s_claude_opus_4_20250514, Pricing(Literals.n_Claude_Opus_4, 1400, 7000, 1750, 2800, 140)),
     Row(Literals.s_claude_3_5_sonnet_20241022, Pricing(Literals.n_Claude_3_5_Sonnet, 400, 2000, 500, 800, 40)) >>

\* Another one: no versioned Opus, no 3.5 Sonnet, a key in capitals.
OtherRemoteTable ==
  << Row(Literals.s_claude_opus_4_20250514, Pricing(Literals.n_Claude_Opus_4, 1400, 7000, 1750, 2800, 140)),
     Row(Literals.s_Claude_3_Haiku_20240307, Pricing(Literals.n_Claude_3_Haiku, 25, 125, 30, 50, 3)) >>

\* What response.json() may give: null, or an object with these entries.
\* MetaRow is the _meta entry of pricing.json, an object without prices;
\* StringPriceRow has a string for its output price; NullRow is null;
\* NoCacheWriteRow has the three prices the validation asks for and no
\* cache-write price.
ResponseBodies ==
  LET MetaRow ==
        Row(Literals.MetaKey,
            [kind |-> "object", name |-> <<>>, input |-> Undefined,
             output |-> Undefined, cache_write_5m |-> Undefined,
             cache_write_1h |-> Undefined, cache_read |-> Undefined])
      StringPriceRow ==
        Row(Literals.s_claude_opus_4_20250514,
            [Pricing(Literals.n_Claude_Opus_4, 1400, 7000, 1750, 2800, 140)
               EXCEPT !.output = [kind |-> "string", v |-> 0]])
      NullRow == Row(Literals.s_claude_3_haiku_20240307, [kind |-> "null"])
      NoCacheWriteRow ==
        Row(Literals.s_claude_3_5_sonnet_20241022,
            [Pricing(Literals.n_Claude_3_5_Sonnet, 300, 1500, 0, 0, 30)
               EXCEPT !.cache_write_5m = Undefined,
                      !.cache_write_1h = Undefined])
  IN {[kind |-> "null", rows |-> <<>>]}
       \cup {[kind |-> "object", rows |-> rows] :
               rows \in {<<>>, RemoteTable, <<MetaRow>> \o RemoteTable,
                         OtherRemoteTable, RemoteTable \o <<StringPriceRow>>,
                         <<NullRow>> \o OtherRemoteTable,
                         <<NoCacheWriteRow>>}}

\* What fetch may do: throw, answer with an error status, answer with a body.
FetchResponses ==
  {[kind |-> k, body |-> [kind |-> "null", rows |-> <<>>]] : k \in {"throws", "notOk"}}
    \cup {[kind |-> "ok", body |-> b] : b \in ResponseBodies}

PRICING_CACHE_TTL == 24 * HourMs

CacheEntry(data, timestamp) ==
  [kind |-> "entry", data |-> data, timestamp |-> timestamp]

\* Variant: an entry is still fresh at the instant it expires.
isPricingFreshAtExpiry(cached, clock) ==
  /\ cached.kind = "entry"
  /\ clock - cached.timestamp <= PRICING_CACHE_TTL

\* cached && now - cached.timestamp < this.CACHE_TTL
isPricingFresh(cached, clock) ==
  /\ cached.kind = "entry"
  /\ clock - cached.timestamp < PRICING_CACHE_TTL

\* PricingService.loadDiskCache: the content of the cache file, if it has
\* data and a timestamp.
loadDiskCache(file) ==
  IF file.kind = "entry" /\ file.timestamp # 0 THEN file ELSE NoCacheEntry

\* The loop that filters out the metadata.
withoutMeta(rows) == SelectSeq(rows, LAMBDA row : row.key # Literals.MetaKey)

\* Variant: the payload is trusted as it comes.
validatePricingDataTrusting(data) == TRUE

\* PricingService.validatePricingData
validatePricingData(data) ==
  \A i \in 1..Len(data) :
    /\ data[i].value.kind = "object"
    /\ data[i].value.input.kind = "number"
    /\ data[i].value.output.kind = "number"
    /\ data[i].value.cache_read.kind = "number"

\* PricingService.getCurrentPricing, given the response fetch would give and
\* whether writeFileSync succeeds: the table returned, the caches after the
\* call, whether a request was sent.
getCurrentPricing(memCached, file, clock, response, saved) ==
  IF isPricingFresh(memCached, clock)
    THEN [data |-> memCached.data, memoryCache |-> memCached,
          diskCache |-> file, fetched |-> FALSE]
  ELSE
    LET diskCached == loadDiskCache(file)
        pricingData == withoutMeta(response.body.rows)
    IN IF isPricingFresh(diskCached, clock)
         THEN [data |-> diskCached.data, memoryCache |-> diskCached,
               diskCache |-> file, fetched |-> FALSE]
       ELSE IF /\ response.kind = "ok"
               /\ response.body.kind = "object"
               /\ validatePricingData(pricingData)
         THEN [data |-> pricingData,
               memoryCache |-> CacheEntry(pricingData, clock),
               diskCache |-> IF saved THEN CacheEntry(pricingData, clock) ELSE file,
               fetched |-> TRUE]
       ELSE IF diskCached.kind = "entry"
         THEN [data |-> diskCached.data, memoryCache |-> diskCached,
               diskCache |-> file, fetched |-> TRUE]
       ELSE [data |-> OFFLINE_PRICING_DATA, memoryCache |-> memCached,
             diskCache |-> file, fetched |-> TRUE]

\* allPricing[key]: the value of the entry with that key, undefined without.
valueOf(allPricing, key) ==
  IF \E i \in 1..Len(allPricing) : allPricing[i].key = key
    THEN allPricing[CHOOSE i \in 1..Len(allPricing) : allPricing[i].key = key].value
    ELSE [kind |-> "undefined"]

FirstOf(S) == CHOOSE i \in S : \A j \in S : i <= j

\* Variant: the generic families are tried before the versioned ones.
patternsGenericFirst ==
  <<
     [pattern |-> <<Literals.s_sonnet>>,
      fallback |-> Literals.s_claude_3_5_sonnet_20241022],
     [pattern |-> <<Literals.s_opus>>,
      fallback |-> Literals.s_claude_opus_4_20250514],
     [pattern |-> <<Literals.s_haiku, Literals.s_3_haiku>>,
      fallback |-> Literals.s_claude_3_haiku_20240307],
     [pattern |-> <<Literals.s_3_5_haiku, Literals.s_haiku_3_5>>,
      fallback |-> Literals.s_claude_3_5_haiku_20241022],
     [pattern |-> <<Literals.s_3_5_sonnet, Literals.s_sonnet_3_5>>,
      fallback |-> Literals.s_claude_3_5_sonnet_20241022],
     [pattern |-> <<Literals.s_sonnet_3_7, Literals.s_3_7_sonnet>>,
      fallback |-> Literals.s_claude_3_7_sonnet_20250219],
     [pattern |-> <<Literals.s_sonnet_4, Literals.s_claude_sonnet_4>>,
      fallback |-> Literals.s_claude_sonnet_4_20250514],
     [pattern |-> <<Literals.s_opus_4, Literals.s_claude_opus_4>>,
      fallback |-> Literals.s_claude_opus_4_20250514],
     [pattern |-> <<Literals.s_opus_4_1, Literals.s_claude_opus_4_1>>,
      fallback |-> Literals.s_claude_opus_4_1_20250805]
  >>

\* The patterns of fuzzyMatchModel.
patterns ==
  <<
     [pattern |-> <<Literals.s_opus_4_1, Literals.s_claude_opus_4_1>>,
      fallback |-> Literals.s_claude_opus_4_1_20250805],
     [pattern |-> <<Literals.s_opus_4, Literals.s_claude_opus_4>>,
      fallback |-> Literals.s_claude_opus_4_20250514],
     [pattern |-> <<Literals.s_sonnet_4, Literals.s_claude_sonnet_4>>,
      fallback |-> Literals.s_claude_sonnet_4_20250514],
     [pattern |-> <<Literals.s_sonnet_3_7, Literals.s_3_7_sonnet>>,
      fallback |-> Literals.s_claude_3_7_sonnet_20250219],
     [pattern |-> <<Literals.s_3_5_sonnet, Literals.s_sonnet_3_5>>,
      fallback |-> Literals.s_claude_3_5_sonnet_20241022],
     [pattern |-> <<Literals.s_3_5_haiku, Literals.s_haiku_3_5>>,
      fallback |-> Literals.s_claude_3_5_haiku_20241022],
     [pattern |-> <<Literals.s_haiku, Literals.s_3_haiku>>,
      fallback |-> Literals.s_claude_3_haiku_20240307],
     [pattern |-> <<Literals.s_opus>>,
      fallback |-> Literals.s_claude_opus_4_20250514],
     [pattern |-> <<Literals.s_sonnet>>,
      fallback |-> Literals.s_claude_3_5_sonnet_20241022]
  >>

\* PricingService.fuzzyMatchModel
fuzzyMatchModel(id, allPricing) ==
  LET lowerModelId == toLowerCase(id)
      exact == {i \in 1..Len(allPricing) :
                  toLowerCase(allPricing[i].key) = lowerModelId}
      hits == {i \in 1..Len(patterns) :
                 /\ \E p \in 1..Len(patterns[i].pattern) :
                      includes(lowerModelId, patterns[i].pattern[p])
                 /\ valueOf(allPricing, patterns[i].fallback).kind = "object"}
  IN IF exact # {}
       THEN allPricing[FirstOf(exact)].value
     ELSE IF hits # {}
       THEN valueOf(allPricing, patterns[FirstOf(hits)].fallback)
     ELSE IF valueOf(allPricing, Literals.s_claude_3_5_sonnet_20241022).kind = "object"
       THEN valueOf(allPricing, Literals.s_claude_3_5_sonnet_20241022)
     ELSE Pricing(id \o Literals.UnknownModelSuffix, 300, 1500, 375, 600, 30)

\* PricingService.getModelPricing, from the table getCurrentPricing gave.
getModelPricing(id, allPricing) ==
  IF valueOf(allPricing, id).kind = "object"
    THEN valueOf(allPricing, id)
    ELSE fuzzyMatchModel(id, allPricing)

\* Model identifiers of transcript entries.
ModelIds ==
  {Literals.s_claude_opus_4_1_20250805, Literals.s_Claude_Opus_4_1_20250805, Literals.s_opus_4_1,
   Literals.s_claude_opus_4, Literals.s_claude_sonnet_4, Literals.s_claude_3_haiku_20240307, Literals.s_haiku,
   Literals.s_gpt_4, <<>>}

\* No call is under way: the values the last call returned are gone.
NoPricingResult ==
  /\ pricingTable' = <<>>
  /\ fetched' = FALSE
  /\ fetchResponse' = NoResponse
  /\ modelId' = <<>>
  /\ modelPricing' = NotComputed

\* The request is sent only when neither cache is fresh, and the cache file
\* is written only after a response that validates.
ResponsesAt(clock) ==
  IF \/ isPricingFresh(memoryCache, clock)
     \/ isPricingFresh(loadDiskCache(diskCache), clock)
    THEN {NoResponse}
    ELSE FetchResponses

SaveOutcomes(response) ==
  IF response.kind = "ok" /\ response.body.kind = "object"
    THEN BOOLEAN
    ELSE {FALSE}

\* A process starts with an empty memory cache; the cache file is missing
\* or was written by an earlier process.
PricingInit ==
  /\ memoryCache = NoCacheEntry
  /\ diskCache \in {NoCacheEntry, CacheEntry(RemoteTable, HourMs),
                    CacheEntry(OtherRemoteTable, HourMs)}
  /\ pricingTable = <<>>
  /\ fetched = FALSE
  /\ fetchResponse = NoResponse
  /\ modelId = <<>>
  /\ modelPricing = NotComputed
  /\ burnRateInfo = NotComputed
  /\ timerInfo = NotComputed
  /\ activeBlockArg = NotComputed
  /\ segmentTimerInfo = NotComputed
  /\ resetTimeInfo = NotComputed
  /\ cachedResetTime = [kind |-> "null"]
  /\ resetDetectedAt = NoDate
  /\ ranDetection = FALSE
  /\ inFlight = 0
  /\ dailyCost = NotComputed
  /\ calculatedCosts = <<>>
  /\ entries = <<>>
  /\ pc = "idle"
  /\ now = DayMs
  /\ subBlocks = <<>>
  /\ tpBlocks = <<>>
  /\ timerBlocks = <<>>
  /\ subActive = 0
  /\ tpActive = 0
  /\ timerActive = 0
  /\ usageData = [totalTokens |-> Num(0), dailyUsageWithCacheRead |-> Num(0),
                  activeBlockWithCache |-> Num(0)]
  /\ tokensLimit = 0
  /\ info = [percentage |-> Num(0), tokensUsed |-> Num(0),
             tokensLimit |-> 0, isOverLimit |-> FALSE]
  /\ ReaderIdle
  /\ LimitIdle

\* The call has returned and time passes until the next one: none, or half
\* of the cache's lifetime.
PricingTick ==
  /\ pc \in {"gotPricing", "gotModelPricing"}
  /\ \E d \in {0, PRICING_CACHE_TTL \div 2} :
       /\ now + d <= MaxPricingDays * DayMs
       /\ now' = now + d
  /\ pc' = "idle"
  /\ NoPricingResult
  /\ UNCHANGED <<entries, subBlocks, tpBlocks, timerBlocks, subActive,
                 tpActive, timerActive, usageData, tokensLimit, info,
                 readerVars, limitVars, metricVars, extraVars, memoryCache,
                 diskCache>>

\* The next render is a new process: the static memory cache is empty.
ProcessRestart ==
  /\ pc \in {"gotPricing", "gotModelPricing"}
  /\ memoryCache' = NoCacheEntry
  /\ pc' = "idle"
  /\ NoPricingResult
  /\ UNCHANGED <<entries, now, subBlocks, tpBlocks, timerBlocks, subActive,
                 tpActive, timerActive, usageData, tokensLimit, info,
                 readerVars, limitVars, metricVars, extraVars, diskCache>>

GetCurrentPricing ==
  /\ pc = "idle"
  /\ \E response \in ResponsesAt(now) : \E saved \in SaveOutcomes(response) :
       LET r == getCurrentPricing(memoryCache, diskCache, now, response, saved)
       IN /\ pricingTable' = r.data
          /\ memoryCache' = r.memoryCache
          /\ diskCache' = r.diskCache
          /\ fetched' = r.fetched
          /\ fetchResponse' = response
  /\ pc' = "gotPricing"
  /\ UNCHANGED <<entries, now, subBlocks, tpBlocks, timerBlocks, subActive,
                 tpActive, timerActive, usageData, tokensLimit, info,
                 readerVars, limitVars, metricVars, extraVars, modelId,
                 modelPricing>>

\* getModelPricing: getCurrentPricing, then the lookup in its table.
GetModelPricing ==
  /\ pc = "idle"
  /\ \E id \in ModelIds : \E response \in ResponsesAt(now) :
     \E saved \in SaveOutcomes(response) :
       LET r == getCurrentPricing(memoryCache, diskCache, now, response, saved)
       IN /\ pricingTable' = r.data
          /\ memoryCache' = r.memoryCache
          /\ diskCache' = r.diskCache
          /\ fetched' = r.fetched
          /\ fetchResponse' = response
          /\ modelId' = id
          /\ modelPricing' = getModelPricing(id, r.data)
  /\ pc' = "gotModelPricing"
  /\ UNCHANGED <<entries, now, subBlocks, tpBlocks, timerBlocks, subActive,
                 tpActive, timerActive, usageData, tokensLimit, info,
                 readerVars, limitVars, metricVars, extraVars>>

SpecPricing ==
  /\ PricingInit
  /\ [][\/ PricingTick
         \/ ProcessRestart
         \/ GetCurrentPricing
         \/ GetModelPricing]_vars

\* ------------------------------------------------- the pending request
\* getCurrentPricing up to its await: a fresh cache is returned at once, else
\* globalThis.fetch is called with the URL and two headers, and no signal
\* and no timer, and the call is suspended on the promise.
StartGetCurrentPricing ==
  /\ pc = "idle"
  /\ IF \/ isPricingFresh(memoryCache, now)
        \/ isPricingFresh(loadDiskCache(diskCache), now)
       THEN LET r == getCurrentPricing(memoryCache, diskCache, now,
                                       NoResponse, FALSE)
            IN /\ pricingTable' = r.data
               /\ memoryCache' = r.memoryCache
               /\ diskCache' = r.diskCache
               /\ fetched' = r.fetched
               /\ pc' = "gotPricing"
       ELSE /\ fetched' = TRUE
            /\ pc' = "awaitingFetch"
            /\ UNCHANGED <<pricingTable, memoryCache, diskCache>>
  /\ UNCHANGED <<entries, now, subBlocks, tpBlocks, timerBlocks, subActive,
                 tpActive, timerActive, usageData, tokensLimit, info,
                 readerVars, limitVars, metricVars, extraVars, fetchResponse,
                 modelId, modelPricing>>

\* The endpoint settles the promise, by a response or by a network error,
\* and getCurrentPricing runs to its return.
FetchSettles ==
  /\ pc = "awaitingFetch"
  /\ \E response \in FetchResponses : \E saved \in SaveOutcomes(response) :
       LET r == getCurrentPricing(memoryCache, diskCache, now, response, saved)
       IN /\ pricingTable' = r.data
          /\ memoryCache' = r.memoryCache
          /\ diskCache' = r.diskCache
          /\ fetched' = r.fetched
          /\ fetchResponse' = response
  /\ pc' = "gotPricing"
  /\ UNCHANGED <<entries, now, subBlocks, tpBlocks, timerBlocks, subActive,
                 tpActive, timerActive, usageData, tokensLimit, info,
                 readerVars, limitVars, metricVars, extraVars, modelId,
                 modelPricing>>

\* Time passes while the call is suspended: nothing in getCurrentPricing
\* reads the clock again or is scheduled to run.
WaitForFetch ==
  /\ pc = "awaitingFetch"
  /\ now + PRICING_CACHE_TTL \div 2 <= MaxPricingDays * DayMs
  /\ now' = now + PRICING_CACHE_TTL \div 2
  /\ UNCHANGED <<entries, pc, subBlocks, tpBlocks, timerBlocks, subActive,
                 tpActive, timerActive, usageData, tokensLimit, info,
                 readerVars, limitVars, metricVars, extraVars, pricingVars>>

\* The steps of the process are taken when they can be (the event loop runs
\* what is runnable); the endpoint owes no answer, so FetchSettles is under
\* no fairness condition.
SpecFetch ==
  /\ PricingInit
  /\ [][\/ StartGetCurrentPricing
         \/ FetchSettles
         \/ WaitForFetch
         \/ PricingTick
         \/ ProcessRestart]_vars
  /\ WF_vars(StartGetCurrentPricing)
  /\ WF_vars(WaitForFetch)

\* ------------------------------------------------------- the daily cost
\* The entries parseTranscriptFile returns, as far as the daily cost reads
\* them: the usage, the recorded costUSD (absent, 0 or 5, in units of
\* 10^-8 dollars), the model (absent, or one no table lists; an entry with
\* a recorded cost is never priced, so its model is left absent).
CostEntries ==
  {e \in [usage : {u \in Usages : u.cacheReadInputTokens > 0},
          costUSD : {Undefined, Num(0), Num(5)},
          model : {<<>>, Literals.s_gpt_4}] :
     IsNumber(e.costUSD) => e.model = <<>>}

\* PricingService.extractModelId, for entries that carry their model in
\* entry.model or nowhere.
extractModelId(entry) ==
  IF entry.model # <<>> THEN entry.model
  ELSE Literals.s_claude_3_5_sonnet_20241022

\* Variant: the cost of the tokens read from the cache is left out.
calculateCostWithoutCacheRead(entry, pricing) ==
  IF IsNumber(entry.costUSD)
    THEN entry.costUSD
    ELSE IF IsNumber(pricing.cache_write_5m)
      THEN Num(entry.usage.inputTokens * pricing.input.v
                 + entry.usage.outputTokens * pricing.output.v
                 + entry.usage.cacheCreationInputTokens * pricing.cache_write_5m.v)
      ELSE NaN

\* PricingService.calculateCostForEntry with the pricing getModelPricing
\* gave.  Prices are in cents per million tokens, so tokens * price is the
\* cost in units of 10^-8 dollars; a product with an undefined price and a
\* sum with NaN are NaN.
calculateCostForEntry(entry, pricing) ==
  LET Times(tokens, price) ==
        IF IsNumber(price) THEN Num(tokens * price.v) ELSE NaN
      Plus(a, b) ==
        IF IsNumber(a) /\ IsNumber(b) THEN Num(a.v + b.v) ELSE NaN
      inputCost == Times(entry.usage.inputTokens, pricing.input)
      outputCost == Times(entry.usage.outputTokens, pricing.output)
      cacheReadCost == Times(entry.usage.cacheReadInputTokens, pricing.cache_read)
      cacheCreationCost == Times(entry.usage.cacheCreationInputTokens,
                                 pricing.cache_write_5m)
  IN IF IsNumber(entry.costUSD)
       THEN entry.costUSD
       ELSE Plus(Plus(Plus(inputCost, outputCost), cacheCreationCost),
                 cacheReadCost)

\* A process with an empty memory cache and no cache file; the transcripts
\* of today hold up to MaxEntries entries.
CostInit ==
  /\ entries \in BoundedSeq(CostEntries, MaxEntries)
  /\ pc = "idle"
  /\ now = DayMs
  /\ subBlocks = <<>>
  /\ tpBlocks = <<>>
  /\ timerBlocks = <<>>
  /\ subActive = 0
  /\ tpActive = 0
  /\ timerActive = 0
  /\ usageData = [totalTokens |-> Num(0), dailyUsageWithCacheRead |-> Num(0),
                  activeBlockWithCache |-> Num(0)]
  /\ tokensLimit = 0
  /\ info = [percentage |-> Num(0), tokensUsed |-> Num(0),
             tokensLimit |-> 0, isOverLimit |-> FALSE]
  /\ ReaderIdle
  /\ LimitIdle
  /\ ServicesIdle

\* getDailyCostInfo up to its loop: getAllSessionsForToday has summed
\* entry.costUSD || 0 over all entries of today.
GetAllSessionsForToday ==
  /\ pc = "idle"
  /\ dailyCost' =
       [kind |-> "running", index |-> 0,
        totalCost |-> Num(sumOver([i \in 1..Len(entries) |->
                                     [usage |-> [costUSD |-> entries[i].costUSD.v]]],
                                  "costUSD"))]
  /\ calculatedCosts' = <<>>
  /\ pc' = "costing"
  /\ UNCHANGED <<entries, now, subBlocks, tpBlocks, timerBlocks, subActive,
                 tpActive, timerActive, usageData, tokensLimit, info,
                 readerVars, limitVars, metricVars, pricingVars,
                 cachedResetTime, resetDetectedAt, ranDetection, inFlight>>

\* One iteration of the loop of getDailyCostInfo: an entry with a numeric
\* costUSD is passed over, for any other calculateCostForEntry asks
\* getModelPricing (and through it getCurrentPricing) and its result is
\* added to the total.
CalculateCostForEntry ==
  /\ pc = "costing"
  /\ dailyCost.index < Len(entries)
  /\ LET entry == entries[dailyCost.index + 1]
     IN IF IsNumber(entry.costUSD)
          THEN /\ dailyCost' = [dailyCost EXCEPT !.index = @ + 1]
               /\ calculatedCosts' = Append(calculatedCosts, [kind |-> "skipped"])
               /\ UNCHANGED pricingVars
          ELSE \E response \in ResponsesAt(now) :
               \E saved \in SaveOutcomes(response) :
                 LET r == getCurrentPricing(memoryCache, diskCache, now,
                                            response, saved)
                     id == extractModelId(entry)
                     pricing == getModelPricing(id, r.data)
                     cost == calculateCostForEntry(entry, pricing)
                 IN /\ pricingTable' = r.data
                    /\ memoryCache' = r.memoryCache
                    /\ diskCache' = r.diskCache
                    /\ fetched' = r.fetched
                    /\ fetchResponse' = response
                    /\ modelId' = id
                    /\ modelPricing' = pricing
                    /\ calculatedCosts' =
                         Append(calculatedCosts,
                                [kind |-> "calculated", pricing |-> pricing,
                                 cost |-> cost])
                    /\ dailyCost' =
                         [dailyCost EXCEPT
                            !.index = @ + 1,
                            !.totalCost =
                               IF IsNumber(@) /\ IsNumber(cost)
                                 THEN Num(@.v + cost.v) ELSE NaN]
  /\ UNCHANGED <<entries, pc, now, subBlocks, tpBlocks, timerBlocks,
                 subActive, tpActive, timerActive, usageData, tokensLimit,
                 info, readerVars, limitVars, metricVars, cachedResetTime,
                 resetDetectedAt, ranDetection, inFlight>>

SpecCost ==
  CostInit /\ [][GetAllSessionsForToday \/ CalculateCostForEntry]_vars

\* -------------------------------------------- properties of the reader
\* The well-formed lines that have a usage sub-structure.
IsUsageLine(l) == l.shape = "json" /\ l.hasMessage /\ l.hasUsage

UsageLinesOf(lines) == SelectSeq(lines, IsUsageLine)

\* The file the last turn of the file loop parsed.
LastFileRead == transcriptFiles[fileIndex]

\* C14: parseTranscriptFile never stops early: whatever lines that do not
\* parse or carry no usage stand before, between or after them, the entries
\* it yields are exactly those of the well-formed lines with a usage
\* sub-structure, in file order; a file that cannot be read yields the empty
\* list.
C14_ParseYieldsExactlyUsageLines ==
  fileIndex > 0 =>
    LET usable == UsageLinesOf(LastFileRead.lines)
    IN IF ~LastFileRead.readable
         THEN parsed = <<>>
         ELSE /\ Len(parsed) = Len(usable)
              /\ \A i \in 1..Len(usable) :
                   /\ parsed[i].usage = usable[i].usage
                   /\ parsed[i].costUSD = usable[i].costUSD
                   /\ usable[i].timestamp # NoDate =>
                        parsed[i].timestamp = usable[i].timestamp

\* A line that does not parse, a usage line, a line without usage: one entry.
C14_Witness ==
  /\ fileIndex > 0
  /\ LastFileRead.readable
  /\ Len(LastFileRead.lines) = 3
  /\ LastFileRead.lines[1].shape = "badjson"
  /\ IsUsageLine(LastFileRead.lines[2])
  /\ ~LastFileRead.lines[3].hasUsage
  /\ Len(parsed) = 1

\* The lines of all the files, in the order the file loop reads them.
AllLines == Flatten([i \in 1..Len(transcriptFiles) |-> transcriptFiles[i].lines])

\* The distinct usage lines that were fed to the reader.
DistinctUsageLines == {AllLines[i] : i \in {k \in 1..Len(AllLines) : IsUsageLine(AllLines[k])}}

\* C11: deduplication is idempotent: a line counts once however often it is
\* fed (the same file twice, or the line repeated in a file), so the record
\* set holds at most one record per distinct line; one line fed twice gives
\* a record set of size 1.
C11_EachLineCountedOnce ==
  pc = "read" => Len(entries) <= Cardinality(DistinctUsageLines)

\* The dedupe key a line is to have: the identifier pair when the line
\* carries both identifiers, the timestamp + input/output signature when one
\* is missing.
KeyOfLine(l) ==
  IF l.messageId # 0 /\ l.requestId # 0
    THEN [kind |-> "ids", a |-> l.messageId, b |-> l.requestId, c |-> 0]
    ELSE [kind |-> "signature", a |-> l.timestamp,
          b |-> l.usage.input_tokens, c |-> l.usage.output_tokens]

\* Every line fed is a usage line of the main chain with a timestamp, or a
\* line that yields no entry.
OnlyPlainLines ==
  \A i \in 1..Len(AllLines) :
    IsUsageLine(AllLines[i]) =>
      ~AllLines[i].isSidechain /\ AllLines[i].timestamp # NoDate

\* C12: a line that carries both a message identifier and a request
\* identifier is keyed by the pair, and by the timestamp + input/output
\* signature only when an identifier is missing: lines with the same pair
\* are counted once, lines with different pairs are all counted even when
\* their timestamps and input/output counts coincide.
C12_IdentifierPairIsTheKey ==
  (pc = "read" /\ OnlyPlainLines) =>
    Len(entries) = Cardinality({KeyOfLine(l) : l \in DistinctUsageLines})

\* The records the reader keeps of the lines, every line parsed at clock
\* reading stamp.
RecordsOf(lines, stamp) ==
  collectEntries([seenHashes |-> {}, allEntries |-> <<>>],
                 parseLines(lines, [i \in 1..Len(lines) |-> stamp])).allEntries

\* The usage figures of the subscription segment for the records es at n.
UsageAt(es, n) ==
  getActiveBlockUsage(es, subIdentifySessionBlocks(es),
                      findActiveBlock(subIdentifySessionBlocks(es), n))

MainChainLines == SelectSeq(AllLines, LAMBDA l : ~l.isSidechain)

NoStampedLine == \A i \in 1..Len(AllLines) : ~IsStamped(AllLines[i])

\* C13: a line with isSidechain: true and full usage fields contributes zero
\* tokens to the downstream totals: the active-block usage that is reported
\* is the usage of the lines of the main chain alone.
C13_SidechainContributesNothing ==
  (pc = "reported" /\ NoStampedLine) =>
    usageData = UsageAt(RecordsOf(MainChainLines, now), now)

\* The lines of the files read in the order p.
LinesInOrder(p) == [i \in 1..Len(AllLines) |-> AllLines[p[i]]]

RecordSet(es) == {es[i] : i \in 1..Len(es)}

\* C15: the deduplicated record set, and with it the token total of the
\* active block, is the same for every order in which the files and their
\* lines are read.
C15_ReadOrderIndependent ==
  (pc = "read" /\ NoStampedLine) =>
    \A p \in Permutations(1..Len(AllLines)) :
      /\ Len(RecordsOf(LinesInOrder(p), now)) = Len(entries)
      /\ RecordSet(RecordsOf(LinesInOrder(p), now)) = RecordSet(entries)

\* ----------------------------------- properties of the quota estimator
\* The totals of the blocks the scan returned, largest first.
SortedTotals ==
  sortDescending([i \in 1..Len(historicalBlocks) |-> historicalBlocks[i].totalTokens])

ClusterMeans == findLimitClusters(SortedTotals)

\* C16: when no historical block total exceeds the moderate-usage floor of
\* 20,000,000 tokens, getDailyTokenLimit returns the fallback constant
\* 45,600,000 with confidence low or fallback.
C16_LowHistoryGivesFallbackConstant ==
  (/\ pc = "estimated"
   /\ \A i \in 1..Len(historicalBlocks) :
        historicalBlocks[i].totalTokens <= 20000000) =>
    /\ limitInfo.dailyTokenLimit = 45600000
    /\ limitInfo.confidence \in {"low", "fallback"}

\* A history whose largest block is on the floor.
C16_Witness ==
  /\ pc = "estimated"
  /\ Len(historicalBlocks) > 0
  /\ SortedTotals[1] = 20000000
  /\ limitInfo.dailyTokenLimit = 45600000
  /\ limitInfo.confidence = "low"

C18_HighPercentileGivesMedium ==
  (/\ pc = "estimated"
   /\ Len(ClusterMeans) = 0
   /\ percentile95(SortedTotals) > 30000000) =>
    /\ limitInfo.dailyTokenLimit = percentile99(SortedTotals)
    /\ limitInfo.confidence = "medium"

\* C19: when the historical scan throws or yields no block,
\* getDailyTokenLimit returns the limit 45,600,000 with confidence fallback
\* and source fallback.
C19_FailedScanGivesFallback ==
  [][(DetectLimit /\ (pc = "scanThrew" \/ Len(historicalBlocks) = 0)) =>
       limitInfo' = [dailyTokenLimit |-> 45600000, confidence |-> "fallback",
                     source |-> "fallback"]]_vars

\* The scan threw although there were transcripts to scan.
C19_Witness ==
  /\ pc = "estimated"
  /\ Len(historyFiles) > 0
  /\ Len(historicalBlocks) = 0
  /\ limitInfo.dailyTokenLimit = 45600000
  /\ limitInfo.source = "fallback"

\* The entries of all the transcripts.
HistoryRecords == Flatten(historyFiles)

\* The entries of the block that is active at n, none if no block is.
ActiveRecordsAt(n) ==
  LET blocks == identifySessionBlocks(HistoryRecords)
      active == tpFindActiveBlock(blocks, n)
  IN IF active = 0 THEN {}
     ELSE {blocks[active].entries[i] : i \in 1..Len(blocks[active].entries)}

\* The transcripts without the entries of the block that is active at n.
FilesWithoutActiveAt(n) ==
  [f \in 1..Len(historyFiles) |->
     SelectSeq(historyFiles[f], LAMBDA e : e \notin ActiveRecordsAt(n))]

\* C20: a block that is active at estimation time contributes nothing to the
\* historical values: whatever the clock reads, the estimate is the one the
\* transcripts give without the entries of the active block.
C20_ActiveBlockNotInHistory ==
  (/\ pc = "estimated"
   /\ historicalBlocks = getHistoricalBlockUsage(historyFiles)) =>
    \A n \in Instants :
      limitInfo = computeDailyTokenLimit(FALSE,
                    getHistoricalBlockUsage(FilesWithoutActiveAt(n)))

\* The totals of the blocks the partitioner makes of the entries of all the
\* transcripts, largest first.
PartitionerTotals ==
  LET blocks == identifySessionBlocks(HistoryRecords)
      RECURSIVE total(_)
      total(es) == IF es = <<>> THEN 0 ELSE tokensOfEntry(Head(es)) + total(Tail(es))
  IN sortDescending([b \in 1..Len(blocks) |-> total(blocks[b].entries)])

\* C21: the per-block totals the quota estimator analyses are the total
\* tokens of the blocks the block partitioner produces for the same records,
\* merged over the transcripts and sorted (compared on the histories of at
\* most MaxEntries transcripts).
C21_EstimatorBlocksArePartitionerBlocks ==
  (/\ pc = "scanned"
   /\ Len(historyFiles) <= MaxEntries) =>
    SortedTotals = PartitionerTotals

\* ------------------------------------ properties of the estimate's cache
\* C22: a getDailyTokenLimit call made less than the TTL of 4 h after the
\* cached estimate's lastUpdated returns that estimate without scanning
\* the history; a call at or after expiry, or the first call after
\* invalidateCache, computes the estimate anew and replaces the cache.
C22_CacheServesUntilExpiry ==
  [][GetDailyTokenLimit =>
       IF pc # "invalidated" /\ lastUpdated # NoDate /\ now - lastUpdated < CACHE_TTL
         THEN /\ limitInfo' = cachedLimit
              /\ ~ranEstimator'
              /\ cachedLimit' = cachedLimit
              /\ lastUpdated' = lastUpdated
         ELSE /\ ranEstimator'
              /\ cachedLimit' = limitInfo'
              /\ lastUpdated' = now]_vars

\* A call one millisecond before expiry was served from the cache.
C22_Witness ==
  /\ pc = "got"
  /\ ~ranEstimator
  /\ now - lastUpdated = CACHE_TTL - 1
  /\ limitInfo = cachedLimit
  /\ cachedLimit.source = "historical_analysis"

\* C23: after setManualLimit(v) every later getDailyTokenLimit returns the
\* limit v with confidence high and source configuration and does not run
\* the historical estimator, until the override is invalidated.
C23_ManualLimitStaysUntilInvalidated ==
  [][(GetDailyTokenLimit /\ cachedLimit.source = "configuration") =>
       /\ limitInfo' = cachedLimit
       /\ ~ranEstimator']_vars

\* C24: after any sequence of getDailyTokenLimit, setManualLimit and
\* invalidateCache calls, every estimate returned or cached has a limit that
\* is a positive integer.
C24_LimitIsPositive ==
  /\ cachedLimit # NoLimitInfo => cachedLimit.dailyTokenLimit > 0
  /\ limitInfo # NoLimitInfo => limitInfo.dailyTokenLimit > 0

\* ------------------------------------------ properties of the burn rate
\* The records of the session transcript that count for the burn rate.
UsableRecords == SelectSeq(transcriptFiles[1].lines, keepsBurnLine)

UsableStamps == {UsableRecords[i].timestamp : i \in 1..Len(UsableRecords)}

IsFinite(q) == q.kind = "number"

\* C25: the burn rate is null, never NaN and never infinite, whenever there
\* are fewer than 2 usable records or the first and the last record have the
\* same timestamp, and then there is no projection either.
C25_NoRateWithoutElapsedTime ==
  pc = "burned" =>
    /\ (Len(UsableRecords) < 2 \/ Cardinality(UsableStamps) = 1) =>
         burnRateInfo = [kind |-> "null"]
    /\ burnRateInfo.kind = "info" =>
         /\ IsFinite(burnRateInfo.tokensPerMinute)
         /\ IsFinite(burnRateInfo.tokensPerMinuteForIndicator)
         /\ IsFinite(burnRateInfo.projection.totalTokens)

\* Two usable records with one timestamp: no burn rate.
C25_Witness ==
  /\ pc = "burned"
  /\ Len(UsableRecords) = 2
  /\ Cardinality(UsableStamps) = 1
  /\ burnRateInfo = [kind |-> "null"]

BurnBlocks == identifySessionBlocks(UsableRecords)

\* The most recent block of the usable records that is active at now, 0 if
\* there is none.
BurnActive ==
  LET active == {b \in 1..Len(BurnBlocks) : isActiveBlock(BurnBlocks[b], now)}
  IN IF active = {} THEN 0 ELSE CHOOSE b \in active : \A c \in active : c <= b

TokensOf(es) ==
  sumOver(es, "input_tokens") + sumOver(es, "output_tokens")
    + sumOver(es, "cache_creation_input_tokens")
    + sumOver(es, "cache_read_input_tokens")

\* C26: burn rate and projection are those of the active block:
\* tokensPerMinute is the block's total tokens over the minutes between its
\* first and last record, the projected total is the block's total plus
\* tokensPerMinute times the minutes left until the block's endTime (for a
\* clock that is not before any record).
C26_RateIsOfActiveBlock ==
  (/\ pc = "burned"
   /\ burnRateInfo.kind = "info"
   /\ \A t \in UsableStamps : t <= now
   /\ BurnActive # 0
   /\ Cardinality({e.timestamp : e \in RecordSet(BurnBlocks[BurnActive].entries)}) > 1) =>
    LET block == BurnBlocks[BurnActive]
        es == block.entries
        rate == Quotient(TokensOf(es) * MinuteMs,
                         es[Len(es)].timestamp - es[1].timestamp)
        left == IF block.endTime > now
                  THEN Quotient(block.endTime - now, MinuteMs)
                  ELSE Quotient(0, 1)
    IN /\ burnRateInfo.tokensPerMinute = rate
       /\ burnRateInfo.projection.totalTokens = roundedSum(TokensOf(es), rate, left)

ResetInstant(block) ==
  IF block.usageLimitResetTime # NoDate THEN block.usageLimitResetTime
  ELSE block.endTime

IsValidTable(rows) ==
  \A i \in 1..Len(rows) :
    /\ rows[i].value.kind = "object"
    /\ IsNumber(rows[i].value.input)
    /\ IsNumber(rows[i].value.output)
    /\ IsNumber(rows[i].value.cache_read)

\* The table a response carries, without its metadata.
PayloadOf(response) == SelectSeq(response.body.rows, LAMBDA row : row.key # Literals.MetaKey)

IsYoung(cached, clock) ==
  cached.kind = "entry" /\ clock - cached.timestamp < 24 * HourMs

\* C28: getCurrentPricing returns the table of the first available source:
\* a memory entry younger than 24 h, a disk entry younger than 24 h, a
\* remote fetch that succeeds and validates, the stale disk entry, the
\* offline table; no request is sent while a young memory or disk entry
\* exists, and a failed fetch yields a table all the same.
C28_FirstAvailableSource ==
  [][GetCurrentPricing =>
       /\ pricingTable' =
            IF IsYoung(memoryCache, now) THEN memoryCache.data
            ELSE IF IsYoung(diskCache, now) THEN diskCache.data
            ELSE IF /\ fetchResponse'.kind = "ok"
                    /\ fetchResponse'.body.kind = "object"
                    /\ IsValidTable(PayloadOf(fetchResponse'))
              THEN PayloadOf(fetchResponse')
            ELSE IF diskCache.kind = "entry" THEN diskCache.data
            ELSE OFFLINE_PRICING_DATA
       /\ (IsYoung(memoryCache, now) \/ IsYoung(diskCache, now)) => ~fetched'
       /\ fetched' = (fetchResponse' # NoResponse)]_vars

\* The request failed and the stale disk entry was returned.
C28_Witness ==
  /\ pc = "gotPricing"
  /\ fetched
  /\ fetchResponse.kind = "throws"
  /\ diskCache.kind = "entry"
  /\ now - diskCache.timestamp >= 24 * HourMs
  /\ pricingTable = diskCache.data

\* C29: a fetched payload with an entry that lacks a numeric input, output
\* or cache-read price is not returned, not stored in the memory cache and
\* not written to the disk cache, and every table held in either cache
\* passed the validation.
C29_OnlyValidatedTables ==
  /\ memoryCache.kind = "entry" => IsValidTable(memoryCache.data)
  /\ diskCache.kind = "entry" => IsValidTable(diskCache.data)
  /\ (/\ pc \in {"gotPricing", "gotModelPricing"}
      /\ fetchResponse.kind = "ok"
      /\ fetchResponse.body.kind = "object"
      /\ ~IsValidTable(PayloadOf(fetchResponse))) =>
       /\ pricingTable # PayloadOf(fetchResponse)
       /\ memoryCache.data # PayloadOf(fetchResponse)
       /\ diskCache.data # PayloadOf(fetchResponse)

\* A payload with a string for a price came back: the offline table is
\* returned and nothing is cached.
C29_Witness ==
  /\ pc = "gotPricing"
  /\ fetchResponse.kind = "ok"
  /\ Len(fetchResponse.body.rows) = Len(RemoteTable) + 1
  /\ fetchResponse.body.rows[Len(RemoteTable) + 1].value.output.kind = "string"
  /\ pricingTable = OFFLINE_PRICING_DATA
  /\ memoryCache = NoCacheEntry
  /\ diskCache = NoCacheEntry

\* The entries of the table whose key is the identifier up to case.
ExactRows == {i \in 1..Len(pricingTable) :
                toLowerCase(pricingTable[i].key) = toLowerCase(modelId)}

HasKey(key) == \E i \in 1..Len(pricingTable) : pricingTable[i].key = key

EntryOf(key) == pricingTable[CHOOSE i \in 1..Len(pricingTable) : pricingTable[i].key = key].value

\* The family patterns that occur in the identifier and whose target is a
\* key of the table.
FamilyHits == {i \in 1..Len(patterns) :
                 /\ \E p \in 1..Len(patterns[i].pattern) :
                      includes(toLowerCase(modelId), patterns[i].pattern[p])
                 /\ HasKey(patterns[i].fallback)}

PricesOf(pricing) ==
  <<pricing.input, pricing.output, pricing.cache_write_5m,
    pricing.cache_write_1h, pricing.cache_read>>

FallbackPrices == <<Num(300), Num(1500), Num(375), Num(600), Num(30)>>

\* The versioned Opus entry wins over the generic one while it exists.
VersionedBeforeGeneric ==
  (/\ ExactRows = {}
   /\ includes(toLowerCase(modelId), Literals.s_opus_4_1)
   /\ HasKey(Literals.s_claude_opus_4_1_20250805)) =>
    modelPricing = EntryOf(Literals.s_claude_opus_4_1_20250805)

\* C30 as stated: getModelPricing gives the entry of a case-insensitive
\* exact key match, else the target of the first family pattern that occurs
\* in the lower-cased identifier and whose target is in the table, else the
\* fixed fallback prices; a versioned family never gets the generic price
\* while its entry exists; every identifier gets a result.
C30_ResolutionOrder ==
  pc = "gotModelPricing" =>
    /\ modelPricing.kind = "object"
    /\ IF ExactRows # {}
         THEN \E i \in ExactRows : modelPricing = pricingTable[i].value
       ELSE IF FamilyHits # {}
         THEN modelPricing = EntryOf(patterns[FirstOf(FamilyHits)].fallback)
       ELSE PricesOf(modelPricing) = FallbackPrices
    /\ VersionedBeforeGeneric

\* C30, amended: the last resort is the table's entry for
\* claude-3-5-sonnet-20241022 when it has one, and the fixed fallback prices
\* only without it.
C30_ResolutionOrderWithTableFallback ==
  pc = "gotModelPricing" =>
    /\ modelPricing.kind = "object"
    /\ IF ExactRows # {}
         THEN \E i \in ExactRows : modelPricing = pricingTable[i].value
       ELSE IF FamilyHits # {}
         THEN modelPricing = EntryOf(patterns[FirstOf(FamilyHits)].fallback)
       ELSE IF HasKey(Literals.s_claude_3_5_sonnet_20241022)
         THEN modelPricing = EntryOf(Literals.s_claude_3_5_sonnet_20241022)
       ELSE PricesOf(modelPricing) = FallbackPrices
    /\ VersionedBeforeGeneric

\* 'opus-4-1' resolves to the versioned entry of a table that also has the
\* generic one.
C30_Witness ==
  /\ pc = "gotModelPricing"
  /\ modelId = Literals.s_opus_4_1
  /\ pricingTable = RemoteTable
  /\ HasKey(Literals.s_claude_opus_4_20250514)
  /\ modelPricing = EntryOf(Literals.s_claude_opus_4_1_20250805)

\* The stamps of a block's records lie between start and start + 5 h.
WithinWindow(es, start) ==
  \A k \in 1..Len(es) :
    start <= es[k].timestamp /\ es[k].timestamp <= start + sessionDurationMs

\* C34: every record of every block the partitioner produces is stamped at
\* or after the block's startTime and at or before its endTime, and endTime
\* is the hour floor of the block's first record plus 5 h, whatever records
\* follow, also when no two consecutive records are more than 5 h apart.
C34_HardCeiling ==
  pc # "read" =>
    /\ \A b \in 1..Len(tpBlocks) :
         /\ tpBlocks[b].startTime = floorToHour(tpBlocks[b].entries[1].timestamp)
         /\ tpBlocks[b].endTime = tpBlocks[b].startTime + sessionDurationMs
         /\ WithinWindow(tpBlocks[b].entries, tpBlocks[b].startTime)
    /\ \A b \in 1..Len(subBlocks) :
         WithinWindow(subBlocks[b], floorToHour(subBlocks[b][1].timestamp))

\* A record opens a block although it is no more than 5 h after the record
\* before it (00:30, then 05:30), and a block holds a record stamped at its
\* endTime (01:00, then 06:00).
C34_Witness ==
  /\ pc = "partitioned"
  /\ \E b \in 1..(Len(tpBlocks) - 1) :
       tpBlocks[b + 1].entries[1].timestamp
         - tpBlocks[b].entries[Len(tpBlocks[b].entries)].timestamp
           <= sessionDurationMs
  /\ \E b \in 1..Len(tpBlocks) :
       tpBlocks[b].entries[Len(tpBlocks[b].entries)].timestamp = tpBlocks[b].endTime

\* The clock reading is the stamp of the latest record.
NowIsLatestStamp ==
  /\ Len(entries) > 0
  /\ \E i \in 1..Len(entries) : entries[i].timestamp = now
  /\ \A i \in 1..Len(entries) : entries[i].timestamp <= now

\* C37: when now is the stamp of the latest record of a non-empty record
\* set, each active-block resolver returns the block that holds that record,
\* which is the last block.
C37_LatestRecordIsCounted ==
  (pc = "resolved" /\ NowIsLatestStamp) =>
    /\ subActive = Len(subBlocks)
    /\ tpActive = Len(tpBlocks)
    /\ timerActive = Len(timerBlocks)

\* The groups the count loop forms out of the totals that have at least 3
\* members and a mean above 30,000,000.
SignificantGroups ==
  SelectSeq(groupCounts(<<>>, SortedTotals, 1),
            LAMBDA g : g.len >= 3 /\ exceedsOnAverage(g, 30000000))

\* C33: findLimitClusters reports the rounded mean of every group of at
\* least 3 historical totals within 2% of the group's running mean whose mean
\* exceeds 30,000,000, whatever the number of totals, 3 or 4 included.
C33_EveryGroupIsReported ==
  pc = "scanned" =>
    \A i \in 1..Len(SignificantGroups) :
      \E j \in 1..Len(ClusterMeans) :
        ClusterMeans[j] = RoundDiv(SignificantGroups[i].sum, SignificantGroups[i].len)

\* C36: getResetTime returns the cached value only while it is fresh, that
\* is computed less than 30 minutes before the call; a call made 30 minutes
\* or more after the detection runs the detection again and replaces the
\* cache; the call that follows invalidateCache runs the detection.
C36_ResetCacheFreshByAge ==
  [][GetResetTime =>
       IF cachedResetTime.kind = "info" /\ now - resetDetectedAt < 30 * MinuteMs
         THEN ~ranDetection' => resetTimeInfo' = cachedResetTime
         ELSE ranDetection' /\ cachedResetTime' = resetTimeInfo']_vars

\* C38: when a recomputation of getDailyTokenLimit completes while the cache
\* holds a manual override that was set during its suspension (a fresh
\* estimate whose source is the configuration), the cache still holds that
\* override afterwards.
C38_RecomputationKeepsOverride ==
  [][(/\ CompleteGetDailyTokenLimit
      /\ cachedLimit.source = "configuration"
      /\ isCacheFresh(cachedLimit, lastUpdated, now)) =>
       cachedLimit' = cachedLimit]_vars

\* tokens / 1,000,000 x price over the four token categories, in units of
\* 10^-8 dollars; not a number when the pricing lacks one of the prices.
CostByCategories(entry, pricing) ==
  IF /\ IsNumber(pricing.input) /\ IsNumber(pricing.output)
     /\ IsNumber(pricing.cache_write_5m) /\ IsNumber(pricing.cache_read)
    THEN Num(entry.usage.inputTokens * pricing.input.v
               + entry.usage.outputTokens * pricing.output.v
               + entry.usage.cacheCreationInputTokens * pricing.cache_write_5m.v
               + entry.usage.cacheReadInputTokens * pricing.cache_read.v)
    ELSE NaN

\* What the i-th entry contributes to the daily total.
Contribution(i) ==
  IF IsNumber(entries[i].costUSD) THEN entries[i].costUSD.v
  ELSE calculatedCosts[i].cost.v

RECURSIVE Contributions(_)
Contributions(n) == IF n = 0 THEN 0 ELSE Contributions(n - 1) + Contribution(n)

\* Every cost the loop has calculated so far is a number.
AllCostsKnown ==
  \A i \in 1..Len(calculatedCosts) :
    calculatedCosts[i].kind = "calculated" => IsNumber(calculatedCosts[i].cost)

\* C31: once the loop of getDailyCostInfo has handled every entry, the total
\* is the sum over the entries of exactly one amount each: the recorded
\* costUSD of an entry that has one (calculateCostForEntry is not called for
\* it), else the cost computed from its four token counts and the prices of
\* its model.
C31_OneAmountPerRecord ==
  (pc = "costing" /\ dailyCost.index = Len(entries)) =>
    /\ dailyCost.totalCost =
         IF AllCostsKnown THEN Num(Contributions(Len(entries))) ELSE NaN
    /\ \A i \in 1..Len(entries) :
         IF IsNumber(entries[i].costUSD)
           THEN calculatedCosts[i].kind = "skipped"
           ELSE /\ calculatedCosts[i].kind = "calculated"
                /\ calculatedCosts[i].cost =
                     CostByCategories(entries[i], calculatedCosts[i].pricing)

\* Three entries: one with a recorded cost of 5, one with a recorded cost of
\* 0, one without, whose cost was computed.
C31_Witness ==
  /\ pc = "costing"
  /\ Len(entries) = 3
  /\ dailyCost.index = 3
  /\ AllCostsKnown
  /\ entries[1].costUSD = Num(5)
  /\ entries[2].costUSD = Num(0)
  /\ entries[3].costUSD = Undefined
  /\ dailyCost.totalCost.v > 5

\* C39: calculateCostForEntry returns a number (defined and finite) that is
\* not negative, for every entry with non-negative token counts and every
\* table getCurrentPricing returns.
C39_CostIsFiniteAndNonNegative ==
  \A i \in 1..Len(calculatedCosts) :
    calculatedCosts[i].kind = "calculated" =>
      /\ IsNumber(calculatedCosts[i].cost)
      /\ calculatedCosts[i].cost.v >= 0
\* C35: every call of getCurrentPricing returns a pricing table, whatever the
\* endpoint does: a call suspended on the request leads to a call that has
\* returned.
C35_EveryCallReturns == (pc = "awaitingFetch") ~> (pc = "gotPricing")

\* A transcript of the render could not be read.
ReadFailed ==
  \E i \in 1..Len(transcriptFiles) : ~transcriptFiles[i].readable

\* C32: when reading a transcript failed, getSubscriptionInfo still returns
\* the fallback payload or real figures, that is numbers a status line can be
\* rendered from (toFixed and toString are called on them).
C32_FailureYieldsFiguresOrFallback ==
  (pc = "reported" /\ ReadFailed) =>
    \/ info = getFallbackData
    \/ IsNumber(info.percentage) /\ IsNumber(info.tokensUsed)

====
